---- MODULE Spec2Model ----
(***************************************************************************)
(* Resilient persistence layer of large_stock_options_monitor:             *)
(*   utils/mysql_handler.py     MySQLHandler           (connection handle) *)
(*   utils/db_health_checker.py DatabaseHealthChecker  (health monitor)    *)
(*   utils/data_handler.py      DataHandler            (persistence router *)
(*                                                      and statistics)    *)
(*                                                                         *)
(* The specifications share the environment (clock, reachability of the    *)
(* MySQL server):                                                          *)
(*   SpecRouter  DataHandler and its private handle, one call at a time    *)
(*   SpecHandle  one MySQLHandler used by the monitor thread and the       *)
(*               caller thread, one step per lock operation, field access  *)
(*               or network call                                           *)
(*   SpecSeq     the same handle used by the caller thread alone           *)
(*   SpecEnsure, SpecCalls  calls on one handle, one after the other       *)
(*   SpecBatch   execute_batch_insert beside another thread's inserts      *)
(*   SpecMonitor DatabaseHealthChecker: start, stop and status calls of the*)
(*               caller beside the monitoring thread                       *)
(*   SpecLoop, SpecLifecycle  start and stop beside the monitoring thread, *)
(*               with and without fairness of the thread                   *)
(*   SpecChecks, SpecReconnect  check_health and force_reconnect called    *)
(*               one after the other                                       *)
(*   SpecStats, SpecReset  check_health, force_reconnect and               *)
(*               reset_statistics of the caller beside the monitoring thread*)
(*   SpecHeal    the monitoring thread and a server that comes and goes    *)
(***************************************************************************)
EXTENDS Integers, Sequences, FiniteSets, TLC

(***************************************************************************)
(* Bounds of the model and constants of the program.                       *)
(***************************************************************************)
MaxSaves == 2
MaxTicks == 1
MaxConns == 2
BatchLen == 2
MaxTasks == 2
MaxChecks == 2
SeqChecks == 10
StatsCalls == 2
HealChecks == 4
StartTime == 1000000
TimeStep == 301
ping_interval == 300
check_interval == 60
DefaultDays == 7
QueryLimit == 1000

VARIABLES
    now,            \* time.time() / datetime.now(), in seconds
    ticks,          \* how often the clock has advanced
    dbUp,           \* the MySQL server accepts connections and serves them
    DATA_CONFIG,    \* config.DATA_CONFIG: save_to_csv, save_to_db
    mysql_handler,  \* DataHandler.mysql_handler: "None" or "MySQLHandler"
    dh,             \* the fields of DataHandler's MySQLHandler
    option_trades,  \* rows of the table option_trades
    csv,            \* the file at DATA_CONFIG['csv_path']
    saved,          \* history: the records passed to save_trade
    csvFailed,      \* history: some write to the file raised
    last,           \* the most recent DataHandler call and what it returned
    connection,     \* MySQLHandler.connection: 0 is None, else a connection object
    sock,           \* per connection object: "unused", "open" or "closed" socket
    served,         \* the connection objects whose socket the server still serves
    connection_lock,\* MySQLHandler.connection_lock: "free" or the thread holding it
    last_ping_time, \* MySQLHandler.last_ping_time
    autocommit,     \* config.get('autocommit', True)
    thread,         \* per thread: where it stands in which call, and its locals
    batch,          \* the list passed to execute_batch_insert and where its rows are
    expectOpen,     \* history: connect returned True and nothing closed since
    is_healthy,     \* DatabaseHealthChecker.is_healthy
    check_count,    \* DatabaseHealthChecker.check_count
    success_count,  \* DatabaseHealthChecker.success_count
    failure_count,  \* DatabaseHealthChecker.failure_count
    last_check_time,     \* DatabaseHealthChecker.last_check_time, 0 is None
    last_failure_time,   \* DatabaseHealthChecker.last_failure_time, 0 is None
    last_failure_reason, \* DatabaseHealthChecker.last_failure_reason
    stop_event,     \* DatabaseHealthChecker.stop_event is set
    health_check_thread, \* DatabaseHealthChecker.health_check_thread, 0 is None
    mh,             \* the MySQLHandler of the DatabaseHealthChecker
    proc,           \* the caller and the monitoring threads: place, call, locals
    status,         \* the dict get_health_status is building or has returned
    lifecycle,      \* history: Unstarted, Running (start returned), Stopped (stop returned)
    hist            \* history: the outcomes of the health_check calls made

routerVars == <<DATA_CONFIG, mysql_handler, dh, option_trades, csv, saved, csvFailed, last>>
envVars == <<now, ticks, dbUp>>
handleVars == <<connection, sock, served, connection_lock, last_ping_time, autocommit,
                thread, batch, expectOpen>>
monitorVars == <<is_healthy, check_count, success_count, failure_count, last_check_time,
                 last_failure_time, last_failure_reason, stop_event, health_check_thread,
                 mh, proc, status, lifecycle, hist>>

(***************************************************************************)
(* Trade records and the CSV file.                                         *)
(***************************************************************************)
OldStamp == StartTime - 8 * 24 * 3600

Records ==
    { [timestamp |-> StartTime, stock_code |-> "HK.00700", option_code |-> "OPT1",
       volume |-> 100, turnover |-> 5000],
      [timestamp |-> OldStamp, stock_code |-> "HK.09988", option_code |-> "OPT2",
       volume |-> 40, turnover |-> 900] }

\* The keys of a trade record, in the order the dict holds them.
Columns == <<"timestamp", "stock_code", "option_code", "volume", "turnover">>

\* A cell of the file is text; kind tells what the text parses as.
TimeCell(t) == [kind |-> "time", num |-> t, text |-> ""]
NumCell(n) == [kind |-> "num", num |-> n, text |-> ""]
TextCell(s) == [kind |-> "text", num |-> 0, text |-> s]

FormatCell(rec, col) ==
    IF col = "timestamp" THEN TimeCell(rec[col])
    ELSE IF col \in {"volume", "turnover"} THEN NumCell(rec[col])
    ELSE TextCell(rec[col])

HeaderLine == [i \in 1..Len(Columns) |-> TextCell(Columns[i])]
DataLine(rec) == [i \in 1..Len(Columns) |-> FormatCell(rec, Columns[i])]

NoFile == [exists |-> FALSE, lines |-> <<>>]

\* A plausible slip: the header is written on every append.
to_csv_header_each_time(file, rec) ==
    [exists |-> TRUE, lines |-> file.lines \o <<HeaderLine, DataLine(rec)>>]

\* A plausible slip: the file is rewritten (mode='w') on every save.
to_csv_overwrites(file, rec) ==
    [exists |-> TRUE, lines |-> <<HeaderLine, DataLine(rec)>>]

\* df_new.to_csv(mode='a', header=False) on an existing file,
\* df_new.to_csv(mode='w', header=True) otherwise.
to_csv(file, rec) ==
    IF file.exists
    THEN [file EXCEPT !.lines = Append(@, DataLine(rec))]
    ELSE [exists |-> TRUE, lines |-> <<HeaderLine, DataLine(rec)>>]

ColumnIndex(header, col) ==
    IF \E i \in 1..Len(header) : header[i].text = col
    THEN CHOOSE i \in 1..Len(header) : header[i].text = col
    ELSE 0

ParseValue(cell) == IF cell.kind = "text" THEN cell.text ELSE cell.num

\* pd.read_csv followed by pd.to_datetime(df['timestamp']): the first line
\* names the columns, every other line is a row; a timestamp cell that is
\* no time makes to_datetime raise.
read_csv(file) ==
    LET header == file.lines[1]
        body == SubSeq(file.lines, 2, Len(file.lines))
        tsCol == ColumnIndex(header, "timestamp")
        raises == \/ tsCol = 0
                  \/ \E i \in 1..Len(body) : body[i][tsCol].kind # "time"
        row(line) == [c \in {header[i].text : i \in 1..Len(header)} |->
                        ParseValue(line[ColumnIndex(header, c)])]
    IN  [raises |-> raises,
         df |-> IF raises THEN <<>> ELSE [i \in 1..Len(body) |-> row(body[i])]]

RECURSIVE SelectSeq2(_, _, _)
\* df[df['timestamp'] >= cutoff]
SelectSeq2(df, field, cutoff) ==
    IF df = <<>> THEN <<>>
    ELSE LET rest == SelectSeq2(Tail(df), field, cutoff)
         IN  IF Head(df)[field] >= cutoff THEN <<Head(df)>> \o rest ELSE rest

RECURSIVE Reverse(_)
Reverse(s) == IF s = <<>> THEN <<>> ELSE Append(Reverse(Tail(s)), Head(s))

RECURSIVE SumField(_, _)
SumField(df, field) ==
    IF df = <<>> THEN 0 ELSE Head(df)[field] + SumField(Tail(df), field)

RECURSIVE MaxField(_, _)
MaxField(df, field) ==
    IF Len(df) = 1 THEN Head(df)[field]
    ELSE LET m == MaxField(Tail(df), field)
         IN  IF Head(df)[field] >= m THEN Head(df)[field] ELSE m

Cutoff(t, days) == t - days * 24 * 3600

(***************************************************************************)
(* MySQLHandler, one call at a time (DataHandler's private handle).        *)
(* connection: "None", "open" (connection.open is true) or "closed" (a     *)
(* connection object whose socket the library has closed); alive: the      *)
(* server still serves the socket.                                         *)
(***************************************************************************)
NewHandler == [connection |-> "None", alive |-> FALSE, last_ping_time |-> 0]

\* A plausible slip: connect does not look at the connection it has and
\* opens a new one every time.
connect_always_reopens(h, up, t) ==
    IF up
    THEN [h |-> [connection |-> "open", alive |-> TRUE, last_ping_time |-> t],
          ret |-> TRUE]
    ELSE [h |-> [h EXCEPT !.connection = "None", !.alive = FALSE], ret |-> FALSE]

\* connect, lines 54-83.
connect(h, up, t) ==
    IF h.connection = "open"
    THEN [h |-> h, ret |-> TRUE]
    ELSE IF up
    THEN [h |-> [connection |-> "open", alive |-> TRUE, last_ping_time |-> t],
          ret |-> TRUE]
    ELSE [h |-> [h EXCEPT !.connection = "None", !.alive = FALSE], ret |-> FALSE]

\* connection.ping(reconnect=True): the library reopens a dropped socket when
\* the server is reachable and raises, leaving the socket closed, when not.
ping(h, up, t) ==
    IF up
    THEN [h |-> [h EXCEPT !.alive = TRUE, !.last_ping_time = t], raised |-> FALSE]
    ELSE [h |-> [h EXCEPT !.connection = "closed", !.alive = FALSE], raised |-> TRUE]

\* A plausible slip: the probe is sent on every call, due or not.
ensure_connection_always_pings(h, up, t) ==
    LET pings == h.connection = "open"
        p == IF pings THEN ping(h, up, t) ELSE [h |-> h, raised |-> FALSE]
        n == IF pings THEN 1 ELSE 0
        c == connect(p.h, up, t)
    IN  IF p.raised \/ p.h.connection # "open"
        THEN [h |-> c.h, ret |-> c.ret, probes |-> n]
        ELSE [h |-> p.h, ret |-> TRUE, probes |-> n]

\* Reads as _ensure_connection; probes is the number of ping calls made.
ensure_connection(h, up, t) ==
    LET due == t - h.last_ping_time > ping_interval
        pings == due /\ h.connection = "open"
        p == IF pings THEN ping(h, up, t) ELSE [h |-> h, raised |-> FALSE]
        n == IF pings THEN 1 ELSE 0
        c == connect(p.h, up, t)
    IN  IF p.raised \/ p.h.connection # "open"
        THEN [h |-> c.h, ret |-> c.ret, probes |-> n]
        ELSE [h |-> p.h, ret |-> TRUE, probes |-> n]

\* A plausible slip: the connection is closed but self.connection keeps
\* referring to it.
disconnect_keeps_reference(h) ==
    IF h.connection = "None" THEN h
    ELSE [h EXCEPT !.connection = "closed", !.alive = FALSE]

\* disconnect, lines 88-91.
disconnect(h) ==
    IF h.connection = "None" THEN h
    ELSE [h EXCEPT !.connection = "None", !.alive = FALSE]

\* cursor.execute on the handle's connection: a socket the server dropped
\* fails and is closed by the library; a served one fails only when the
\* server rejects the statement (stmtOk false).
execute_insert(h, up, t, stmtOk) ==
    LET e == ensure_connection(h, up, t)
    IN  IF ~e.ret THEN [h |-> e.h, ret |-> FALSE, issued |-> FALSE]
        ELSE IF ~e.h.alive
        THEN [h |-> [e.h EXCEPT !.connection = "closed"], ret |-> FALSE, issued |-> TRUE]
        ELSE [h |-> e.h, ret |-> stmtOk, issued |-> TRUE]

\* Returns None as ret = FALSE, a list of rows as ret = TRUE.
execute_query(h, up, t, stmtOk, rows) ==
    LET e == ensure_connection(h, up, t)
    IN  IF ~e.ret THEN [h |-> e.h, ret |-> FALSE, rows |-> <<>>]
        ELSE IF ~e.h.alive
        THEN [h |-> [e.h EXCEPT !.connection = "closed"], ret |-> FALSE, rows |-> <<>>]
        ELSE [h |-> e.h, ret |-> stmtOk, rows |-> IF stmtOk THEN rows ELSE <<>>]

\* INSERT INTO option_trades: trade_data.get('trade_time', datetime.now()).
TradeRow(rec, t) ==
    [trade_time |-> t, stock_code |-> rec.stock_code, option_code |-> rec.option_code,
     volume |-> rec.volume, turnover |-> rec.turnover]

save_option_trade(h, table, rec, up, t, stmtOk) ==
    LET r == execute_insert(h, up, t, stmtOk)
    IN  [h |-> r.h, ret |-> r.ret,
         table |-> IF r.ret THEN Append(table, TradeRow(rec, t)) ELSE table]

\* WHERE trade_time >= now - hours ORDER BY trade_time DESC LIMIT 1000; rows
\* are inserted in time order, so descending order is the reverse.
\* execute_query(...) or []: None and the empty list are the same result.
get_recent_trades(h, table, hours, up, t, stmtOk) ==
    LET sel == Reverse(SelectSeq2(table, "trade_time", t - hours * 3600))
        lim == SubSeq(sel, 1, IF Len(sel) < QueryLimit THEN Len(sel) ELSE QueryLimit)
        r == execute_query(h, up, t, stmtOk, lim)
    IN  [h |-> r.h, ok |-> r.ret, rows |-> r.rows]

(***************************************************************************)
(* DataHandler.                                                            *)
(***************************************************************************)
\* __init__: a handler is kept only when its first connect succeeds.
DataHandler_init(cfg, up, t) ==
    LET c == connect(NewHandler, up, t)
    IN  IF cfg.save_to_db /\ c.ret
        THEN [mysql_handler |-> "MySQLHandler", dh |-> c.h]
        ELSE [mysql_handler |-> "None", dh |-> NewHandler]

\* _save_to_csv: one write to the file; whatever it raises is logged.
save_to_csv(file, rec, csvOk) ==
    [file |-> IF csvOk THEN to_csv(file, rec) ELSE file, writes |-> 1, ok |-> csvOk]

\* _save_to_database: False without a call when there is no handler.
save_to_database(handler, h, table, rec, up, t, stmtOk) ==
    IF handler = "None"
    THEN [h |-> h, table |-> table, calls |-> 0, ret |-> FALSE]
    ELSE LET r == save_option_trade(h, table, rec, up, t, stmtOk)
         IN  [h |-> r.h, table |-> r.table, calls |-> 1, ret |-> r.ret]

CsvPart(cfg, file, rec, csvOk) ==
    IF cfg.save_to_csv THEN save_to_csv(file, rec, csvOk)
    ELSE [file |-> file, writes |-> 0, ok |-> FALSE]

DbPart(cfg, handler, h, table, rec, up, t, stmtOk) ==
    IF cfg.save_to_db THEN save_to_database(handler, h, table, rec, up, t, stmtOk)
    ELSE [h |-> h, table |-> table, calls |-> 0, ret |-> FALSE]

SaveOutcome(c, d, ret) ==
    [file |-> c.file, csv_writes |-> c.writes, csv_ok |-> c.ok,
     h |-> d.h, table |-> d.table, db_calls |-> d.calls, db_ret |-> d.ret, ret |-> ret]

PyBool(b) == IF b THEN "True" ELSE "False"

\* A plausible slip: an error of the file write escapes save_trade, so the
\* database write of the same call is never reached.
save_trade_csv_error_escapes(cfg, handler, h, table, file, rec, up, t, csvOk, stmtOk) ==
    LET c == CsvPart(cfg, file, rec, csvOk)
    IN  IF cfg.save_to_csv /\ ~csvOk
        THEN SaveOutcome(c, [h |-> h, table |-> table, calls |-> 0, ret |-> FALSE], "None")
        ELSE SaveOutcome(c, DbPart(cfg, handler, h, table, rec, up, t, stmtOk), "None")

\* A plausible variant: save_trade returns whether every enabled sink accepted.
save_trade_returns_bool(cfg, handler, h, table, file, rec, up, t, csvOk, stmtOk) ==
    LET c == CsvPart(cfg, file, rec, csvOk)
        d == DbPart(cfg, handler, h, table, rec, up, t, stmtOk)
    IN  SaveOutcome(c, d, PyBool((cfg.save_to_csv => c.ok) /\ (cfg.save_to_db => d.ret)))

\* save_trade has no return statement: it returns None.
save_trade(cfg, handler, h, table, file, rec, up, t, csvOk, stmtOk) ==
    SaveOutcome(CsvPart(cfg, file, rec, csvOk),
                DbPart(cfg, handler, h, table, rec, up, t, stmtOk), "None")

\* df['timestamp'] = pd.to_datetime(df['trade_time'])
FromTable(rows) ==
    [i \in 1..Len(rows) |->
        [trade_time |-> rows[i].trade_time, timestamp |-> rows[i].trade_time,
         stock_code |-> rows[i].stock_code, option_code |-> rows[i].option_code,
         volume |-> rows[i].volume, turnover |-> rows[i].turnover]]

\* The CSV branch of load_historical_data.
load_from_csv(cfg, file, days, t) ==
    IF ~cfg.save_to_csv \/ ~file.exists
    THEN [df |-> <<>>, read |-> FALSE]
    ELSE LET r == read_csv(file)
         IN  [df |-> IF r.raises THEN <<>>
                     ELSE SelectSeq2(r.df, "timestamp", Cutoff(t, days)),
              read |-> TRUE]

load_historical_data(cfg, handler, h, table, file, days, up, t, stmtOk) ==
    LET tried == handler # "None" /\ cfg.save_to_db
        q == get_recent_trades(h, table, days * 24, up, t, stmtOk)
        f == load_from_csv(cfg, file, days, t)
    IN  IF tried /\ q.rows # <<>>
        THEN [h |-> q.h, df |-> FromTable(q.rows), source |-> "primary",
              primary_tried |-> TRUE, primary_ok |-> TRUE, secondary_read |-> FALSE]
        ELSE [h |-> IF tried THEN q.h ELSE h, df |-> f.df, source |-> "secondary",
              primary_tried |-> tried, primary_ok |-> tried /\ q.ok,
              secondary_read |-> f.read]

NoStats == [total_trades |-> 0]

\* The stats dict of get_statistics; avg_trade_size is kept as the fraction
\* sum / count.
Summary(df) ==
    [total_trades |-> Len(df),
     unique_stocks |-> Cardinality({df[i].stock_code : i \in 1..Len(df)}),
     unique_options |-> Cardinality({df[i].option_code : i \in 1..Len(df)}),
     total_volume |-> SumField(df, "volume"),
     total_turnover |-> SumField(df, "turnover"),
     avg_trade_size |-> <<SumField(df, "volume"), Len(df)>>,
     latest_trade_time |-> MaxField(df, "timestamp")]

get_statistics(cfg, handler, h, table, file, up, t, stmtOk) ==
    LET l == load_historical_data(cfg, handler, h, table, file, DefaultDays, up, t, stmtOk)
    IN  [h |-> l.h, source |-> l.source,
         stats |-> IF l.df = <<>> THEN NoStats ELSE Summary(l.df)]

(***************************************************************************)
(* MySQLHandler shared by two threads: its fields, and per thread the      *)
(* place it has reached and its locals.                                    *)
(***************************************************************************)
Threads == {"monitor", "caller"}
ConnIds == 1..MaxConns

\* A thread between calls; rv is what its last call returned.
IdleThread ==
    [pc |-> "idle", op |-> "none", rv |-> "-", cur |-> 0, target |-> 0,
     net |-> "none", fresh |-> FALSE]

\* No execute_batch_insert call made yet.  params_list is the length of the
\* list; of its rows, pending counts those executed in the open transaction
\* of connection conn and committed those the server has committed.
NoBatch == [params_list |-> 0, conn |-> 0, pending |-> 0, committed |-> 0]

\* The server ends the session of connection p: its open transaction is
\* rolled back.
Dropped(b, p) == IF b.conn = p THEN [b EXCEPT !.pending = 0] ELSE b

\* COMMIT on connection p.
Committed(b, p) ==
    IF b.conn = p THEN [b EXCEPT !.committed = b.committed + b.pending, !.pending = 0]
    ELSE b

\* MySQLHandler.__init__, and no call made yet.
HandleFresh(ac) ==
    /\ connection = 0
    /\ sock = [i \in ConnIds |-> "unused"]
    /\ served = {}
    /\ connection_lock = "free"
    /\ last_ping_time = 0
    /\ autocommit = ac
    /\ thread = [t \in Threads |-> IdleThread]
    /\ batch = NoBatch
    /\ expectOpen = FALSE

(***************************************************************************)
(* DatabaseHealthChecker with DATA_CONFIG['save_to_db'] set, so that       *)
(* __init__ (lines 35-41) has given it a MySQLHandler: its fields, the     *)
(* caller's thread and the monitoring threads start_monitoring creates.    *)
(***************************************************************************)
TaskIds == 1..MaxTasks
Caller == MaxTasks + 1
Procs == TaskIds \cup {Caller}

\* The caller between calls; a Thread object not yet created.
IdleProc == [pc |-> "idle", op |-> "none", rv |-> "-", reg |-> 0]
Unborn == [pc |-> "unborn", op |-> "_monitoring_loop", rv |-> "-", reg |-> 0]

\* Thread.is_alive()
is_alive(i) == proc[i].pc \notin {"unborn", "dead"}
AliveTasks == {i \in TaskIds : is_alive(i)}

\* The dict of get_health_status before any of its entries is computed;
\* success_rate is kept as the fraction num / den (times 100).
EmptyStatus ==
    [is_healthy |-> FALSE, check_count |-> 0, success_count |-> 0, failure_count |-> 0,
     success_rate |-> [num |-> 0, den |-> 1], monitoring_active |-> FALSE]

\* No health_check call made yet: calls made, calls that returned True, the
\* latest outcome, the time the latest failed one ended, and whether the
\* outcomes have alternated, starting with a success; of the latest
\* force_reconnect call, the calls it has made so far and check_count when
\* it began.
NoHistory ==
    [calls |-> 0, ok |-> 0, last |-> "-", fail_at |-> 0, alt |-> TRUE,
     trace |-> <<>>, count0 |-> 0]

\* DatabaseHealthChecker.__init__
MonitorFresh ==
    /\ is_healthy = FALSE
    /\ check_count = 0
    /\ success_count = 0
    /\ failure_count = 0
    /\ last_check_time = 0
    /\ last_failure_time = 0
    /\ last_failure_reason = "None"
    /\ stop_event = FALSE
    /\ health_check_thread = 0
    /\ mh = NewHandler
    /\ proc = [p \in Procs |-> IF p = Caller THEN IdleProc ELSE Unborn]
    /\ status = EmptyStatus
    /\ lifecycle = "Unstarted"
    /\ hist = NoHistory

(***************************************************************************)
(* The environment: the clock and the server.                              *)
(***************************************************************************)
Tick ==
    /\ ticks < MaxTicks
    /\ now' = now + TimeStep
    /\ ticks' = ticks + 1
    /\ UNCHANGED dbUp

(***************************************************************************)
(* SpecRouter: the calls of DataHandler.                                   *)
(***************************************************************************)
Configs == [save_to_csv : BOOLEAN, save_to_db : BOOLEAN]
Days == {DefaultDays}

RouterInit ==
    /\ now = StartTime
    /\ ticks = 0
    /\ dbUp \in BOOLEAN
    /\ DATA_CONFIG \in Configs
    /\ LET i == DataHandler_init(DATA_CONFIG, dbUp, now)
       IN  /\ mysql_handler = i.mysql_handler
           /\ dh = i.dh
    /\ option_trades = <<>>
    /\ csv = NoFile
    /\ saved = <<>>
    /\ csvFailed = FALSE
    /\ last = [op |-> "init"]
    /\ HandleFresh(TRUE)
    /\ MonitorFresh

Save(rec, csvOk, stmtOk) ==
    /\ Len(saved) < MaxSaves
    /\ LET r == save_trade(DATA_CONFIG, mysql_handler, dh, option_trades, csv, rec,
                           dbUp, now, csvOk, stmtOk)
       IN  /\ csv' = r.file
           /\ dh' = r.h
           /\ option_trades' = r.table
           /\ csvFailed' = (csvFailed \/ (r.csv_writes > 0 /\ ~r.csv_ok))
           /\ last' = [op |-> "save", at |-> now, record |-> rec,
                       csv_writes |-> r.csv_writes, csv_ok |-> r.csv_ok,
                       db_calls |-> r.db_calls, db_ret |-> r.db_ret, ret |-> r.ret]
    /\ saved' = Append(saved, rec)
    /\ UNCHANGED <<DATA_CONFIG, mysql_handler, envVars, handleVars, monitorVars>>

LoadRecent(days, stmtOk) ==
    /\ LET r == load_historical_data(DATA_CONFIG, mysql_handler, dh, option_trades,
                                     csv, days, dbUp, now, stmtOk)
       IN  /\ dh' = r.h
           /\ last' = [op |-> "load", at |-> now, n |-> Len(saved), days |-> days, df |-> r.df,
                       source |-> r.source, primary_tried |-> r.primary_tried,
                       primary_ok |-> r.primary_ok, secondary_read |-> r.secondary_read]
    /\ UNCHANGED <<DATA_CONFIG, mysql_handler, option_trades, csv, saved, csvFailed, envVars,
                   handleVars, monitorVars>>

Statistics(stmtOk) ==
    /\ LET r == get_statistics(DATA_CONFIG, mysql_handler, dh, option_trades, csv,
                               dbUp, now, stmtOk)
       IN  /\ dh' = r.h
           /\ last' = [op |-> "stats", at |-> now, n |-> Len(saved), source |-> r.source, stats |-> r.stats]
    /\ UNCHANGED <<DATA_CONFIG, mysql_handler, option_trades, csv, saved, csvFailed, envVars,
                   handleVars, monitorVars>>

RouterTick ==
    /\ Tick
    /\ UNCHANGED <<routerVars, handleVars, monitorVars>>

\* The server goes away: every socket it served is dropped.
RouterServerDown ==
    /\ dbUp
    /\ dbUp' = FALSE
    /\ dh' = [dh EXCEPT !.alive = FALSE]
    /\ UNCHANGED <<now, ticks, DATA_CONFIG, mysql_handler, option_trades, csv, saved,
                   csvFailed, last, handleVars, monitorVars>>

RouterServerUp ==
    /\ ~dbUp
    /\ dbUp' = TRUE
    /\ UNCHANGED <<now, ticks, routerVars, handleVars, monitorVars>>

RouterNext ==
    \/ \E rec \in Records, csvOk \in BOOLEAN, stmtOk \in BOOLEAN : Save(rec, csvOk, stmtOk)
    \/ \E days \in Days, stmtOk \in BOOLEAN : LoadRecent(days, stmtOk)
    \/ \E stmtOk \in BOOLEAN : Statistics(stmtOk)
    \/ RouterTick
    \/ RouterServerDown
    \/ RouterServerUp

vars == <<envVars, routerVars, handleVars, monitorVars>>

SpecRouter == RouterInit /\ [][RouterNext]_vars

(***************************************************************************)
(* Claims about DataHandler, checked under SpecRouter.                     *)
(***************************************************************************)
SinksAccepted ==
    /\ DATA_CONFIG.save_to_csv => last.csv_ok
    /\ DATA_CONFIG.save_to_db => last.db_ret

\* C1: every save_trade call with save_to_csv set makes exactly one write to
\* the file, whatever the primary store does, and the outcome of that write
\* never keeps the call from reaching the database write: the handler is
\* called once whenever the router holds one.
C1_SecondaryAlwaysAttempted ==
    last.op = "save" =>
        /\ DATA_CONFIG.save_to_csv => last.csv_writes = 1
        /\ ~DATA_CONFIG.save_to_csv => last.csv_writes = 0
        /\ (DATA_CONFIG.save_to_db /\ mysql_handler # "None") => last.db_calls = 1

\* A save whose file write failed and whose database write was still made.
C1_Witness ==
    /\ last.op = "save"
    /\ last.csv_writes = 1
    /\ ~last.csv_ok
    /\ last.db_calls = 1

C3_PrimaryAlwaysAttempted ==
    (last.op = "save" /\ DATA_CONFIG.save_to_db) => last.db_calls = 1

\* C4 as claimed: load_historical_data returns the primary store's result
\* exactly when save_to_db is set, the router holds a handler and the primary
\* read succeeded (an empty result included), and reads the file only
\* otherwise.
C4_PrimaryIffReadSucceeded ==
    last.op = "load" =>
        LET primaryGood == /\ DATA_CONFIG.save_to_db
                           /\ mysql_handler # "None"
                           /\ last.primary_ok
        IN  /\ last.source = "primary" <=> primaryGood
            /\ last.secondary_read => ~primaryGood

\* The records of the first n saves whose timestamp is inside the window of
\* a call made at time t.
InWindow(n, t, days) == SelectSeq2(SubSeq(saved, 1, n), "timestamp", Cutoff(t, days))

connected_ignores_open(conn, sk) == conn # 0

\* self.connection and self.connection.open
connected(conn, sk) == conn # 0 /\ sk[conn] = "open"

\* get_connection_info()['connected']
get_connection_info_connected == connection # 0 /\ sock[connection] = "open"

\* The connection objects pymysql.connect can hand out next.
FreeIds ==
    {i \in ConnIds : /\ sock[i] # "open"
                     /\ connection # i
                     /\ \A u \in Threads : thread[u].target # i}
NewId == CHOOSE i \in FreeIds : \A j \in FreeIds : i <= j

\* Thread t moves to rec; with inval, the connection the other thread has
\* checked is no longer the one it checked.
Upd(t, rec, inval) ==
    [u \in Threads |->
        IF u = t THEN rec
        ELSE IF inval THEN [thread[u] EXCEPT !.fresh = FALSE]
        ELSE thread[u]]

\* The call of the thread returns v.
Done(rec, v) ==
    [rec EXCEPT !.pc = "idle", !.rv = v, !.cur = 0, !.target = 0, !.net = "none",
                !.fresh = FALSE]

Failed(rec) == IF rec.op = "execute_query" THEN "None" ELSE "False"

\* connect() or _ensure_connection returns ok: to the caller of the call, or
\* to the statement of execute_query / execute_insert.
Returned(rec, ok) ==
    IF rec.op \in {"execute_query", "execute_insert", "execute_batch_insert"}
    THEN IF ok
         THEN [rec EXCEPT !.pc = IF rec.op = "execute_batch_insert" THEN "b_empty"
                                 ELSE "x_lock",
                          !.cur = 0, !.target = 0, !.net = "none", !.fresh = TRUE]
         ELSE Done(rec, Failed(rec))
    ELSE Done(rec, PyBool(ok))

Entry(op) ==
    IF op = "connect" THEN "c_lock"
    ELSE IF op = "disconnect" THEN "d_lock"
    ELSE IF op = "get_connection_info" THEN "i_conn"
    ELSE "e_time"

Ops(t) ==
    IF t = "monitor" THEN {"execute_query", "connect"}
    ELSE {"connect", "disconnect", "_ensure_connection", "execute_query", "execute_insert",
          "get_connection_info"}

Start(t, op) ==
    /\ thread[t].pc = "idle"
    /\ thread' = Upd(t, [IdleThread EXCEPT !.op = op, !.pc = Entry(op)], FALSE)
    /\ UNCHANGED <<connection, sock, served, connection_lock, last_ping_time, autocommit, batch,
                   expectOpen, envVars, routerVars, monitorVars>>

\* connect, lines 57-61: take the lock; an open connection returns True.
connect_lock(t) ==
    /\ thread[t].pc = "c_lock"
    /\ connection_lock = "free"
    /\ IF connected(connection, sock)
       THEN /\ thread' = Upd(t, Returned(thread[t], TRUE), FALSE)
            /\ expectOpen' = TRUE
            /\ UNCHANGED connection_lock
       ELSE /\ thread' = Upd(t, [thread[t] EXCEPT !.pc = "c_net", !.net = "connect"], FALSE)
            /\ connection_lock' = t
            /\ UNCHANGED expectOpen
    /\ UNCHANGED <<connection, sock, served, last_ping_time, autocommit, batch, envVars, routerVars,
                   monitorVars>>

\* connect, lines 63-78: pymysql.connect returns or raises; leaving the with
\* block releases the lock either way.
connect_net(t) ==
    /\ thread[t].pc = "c_net"
    /\ IF dbUp
       THEN /\ FreeIds # {}
            /\ connection' = NewId
            /\ sock' = [sock EXCEPT ![NewId] = "open"]
            /\ served' = served \cup {NewId}
            /\ last_ping_time' = now
            /\ thread' = Upd(t, Returned([thread[t] EXCEPT !.net = "none"], TRUE), TRUE)
            /\ expectOpen' = TRUE
       ELSE /\ thread' = Upd(t, [thread[t] EXCEPT !.pc = "c_exc", !.net = "none"], FALSE)
            /\ UNCHANGED <<connection, sock, served, last_ping_time, expectOpen>>
    /\ connection_lock' = "free"
    /\ UNCHANGED <<autocommit, batch, envVars, routerVars, monitorVars>>

\* A plausible slip: the handler logs and returns False but keeps
\* self.connection.
connect_except_keeps_connection(t) ==
    /\ thread[t].pc = "c_exc"
    /\ thread' = Upd(t, Returned(thread[t], FALSE), FALSE)
    /\ expectOpen' = IF thread[t].op = "connect" THEN expectOpen ELSE FALSE
    /\ UNCHANGED <<connection, sock, served, connection_lock, last_ping_time, autocommit, batch,
                   envVars, routerVars, monitorVars>>

\* connect, lines 80-83: the handler runs after the lock is released.
connect_except(t) ==
    /\ thread[t].pc = "c_exc"
    /\ connection' = 0
    /\ thread' = Upd(t, Returned(thread[t], FALSE), connection # 0)
    /\ expectOpen' = IF thread[t].op = "connect" THEN expectOpen ELSE FALSE
    /\ UNCHANGED <<sock, served, connection_lock, last_ping_time, autocommit, batch, envVars,
                   routerVars, monitorVars>>

\* disconnect, lines 88-89.
disconnect_lock(t) ==
    /\ thread[t].pc = "d_lock"
    /\ connection_lock = "free"
    /\ IF connection # 0
       THEN /\ thread' = Upd(t, [thread[t] EXCEPT !.pc = "d_close", !.net = "close",
                                                  !.target = connection], FALSE)
            /\ connection_lock' = t
       ELSE /\ thread' = Upd(t, Done(thread[t], "None"), FALSE)
            /\ UNCHANGED connection_lock
    /\ expectOpen' = FALSE
    /\ UNCHANGED <<connection, sock, served, last_ping_time, autocommit, batch, envVars, routerVars,
                   monitorVars>>

\* disconnect, lines 90-91.
disconnect_close(t) ==
    /\ thread[t].pc = "d_close"
    /\ sock' = [sock EXCEPT ![thread[t].target] = "closed"]
    /\ served' = served \ {thread[t].target}
    /\ connection' = 0
    /\ connection_lock' = "free"
    /\ thread' = Upd(t, Done(thread[t], "None"), TRUE)
    /\ batch' = Dropped(batch, thread[t].target)
    /\ UNCHANGED <<last_ping_time, autocommit, expectOpen, envVars, routerVars, monitorVars>>

\* _ensure_connection, lines 98-101.
ensure_time(t) ==
    /\ thread[t].pc = "e_time"
    /\ thread' = Upd(t, [thread[t] EXCEPT
                            !.cur = now,
                            !.pc = IF now - last_ping_time > ping_interval
                                   THEN "e_ping_if" ELSE "e_state"], FALSE)
    /\ UNCHANGED <<connection, sock, served, connection_lock, last_ping_time, autocommit, batch,
                   expectOpen, envVars, routerVars, monitorVars>>

\* _ensure_connection, line 103.
ensure_ping_if(t) ==
    /\ thread[t].pc = "e_ping_if"
    /\ thread' = Upd(t, [thread[t] EXCEPT
                            !.pc = IF connected(connection, sock)
                                   THEN "e_ping_call" ELSE "e_state"], FALSE)
    /\ UNCHANGED <<connection, sock, served, connection_lock, last_ping_time, autocommit, batch,
                   expectOpen, envVars, routerVars, monitorVars>>

\* _ensure_connection, line 104: self.connection is read again; None raises
\* AttributeError, which line 106 turns into connect().
ensure_ping_call(t) ==
    /\ thread[t].pc = "e_ping_call"
    /\ thread' = Upd(t, IF connection = 0
                        THEN [thread[t] EXCEPT !.pc = "c_lock"]
                        ELSE [thread[t] EXCEPT !.pc = "e_ping", !.net = "ping",
                                               !.target = connection], FALSE)
    /\ UNCHANGED <<connection, sock, served, connection_lock, last_ping_time, autocommit, batch,
                   expectOpen, envVars, routerVars, monitorVars>>

\* _ensure_connection, lines 104-108: ping(reconnect=True) returns, having
\* reopened the socket if it had to, or raises and leaves the socket closed.
ensure_ping(t) ==
    /\ thread[t].pc = "e_ping"
    /\ LET p == thread[t].target
       IN  IF dbUp
           THEN /\ sock' = [sock EXCEPT ![p] = "open"]
                /\ served' = served \cup {p}
                /\ last_ping_time' = thread[t].cur
                /\ thread' = Upd(t, [thread[t] EXCEPT !.pc = "e_state", !.net = "none",
                                                      !.target = 0], FALSE)
           ELSE /\ sock' = [sock EXCEPT ![p] = "closed"]
                /\ served' = served \ {p}
                /\ thread' = Upd(t, [thread[t] EXCEPT !.pc = "c_lock", !.net = "none",
                                                      !.target = 0], sock[p] = "open")
                /\ UNCHANGED last_ping_time
    /\ UNCHANGED <<connection, connection_lock, autocommit, batch, expectOpen, envVars, routerVars,
                   monitorVars>>

\* _ensure_connection, line 111, first operand.
ensure_state(t) ==
    /\ thread[t].pc = "e_state"
    /\ thread' = Upd(t, [thread[t] EXCEPT
                            !.pc = IF connection = 0 THEN "c_lock" ELSE "e_open"], FALSE)
    /\ UNCHANGED <<connection, sock, served, connection_lock, last_ping_time, autocommit, batch,
                   expectOpen, envVars, routerVars, monitorVars>>

\* _ensure_connection, lines 111-114, second operand: self.connection.open;
\* on None the AttributeError leaves the call.
ensure_open(t) ==
    /\ thread[t].pc = "e_open"
    /\ thread' = Upd(t, IF connection = 0 THEN Done(thread[t], "raise")
                        ELSE IF sock[connection] # "open"
                        THEN [thread[t] EXCEPT !.pc = "c_lock"]
                        ELSE Returned(thread[t], TRUE), FALSE)
    /\ UNCHANGED <<connection, sock, served, connection_lock, last_ping_time, autocommit, batch,
                   expectOpen, envVars, routerVars, monitorVars>>

\* The server still answers on the socket of connection object p.
Alive(p) == sock[p] = "open" /\ p \in served

\* execute_query line 122 / execute_insert line 137: take the lock, then
\* self.connection.cursor(); on None the AttributeError is caught, and the
\* rollback of line 147 raises it again and is swallowed.
execute_lock(t) ==
    /\ thread[t].pc = "x_lock"
    /\ connection_lock = "free"
    /\ IF connection = 0
       THEN /\ thread' = Upd(t, Done(thread[t], Failed(thread[t])), FALSE)
            /\ UNCHANGED connection_lock
       ELSE /\ thread' = Upd(t, [thread[t] EXCEPT !.pc = "x_exec", !.net = "execute",
                                                  !.target = connection], FALSE)
            /\ connection_lock' = t
    /\ UNCHANGED <<connection, sock, served, last_ping_time, autocommit, batch, expectOpen,
                   envVars, routerVars, monitorVars>>

\* cursor.execute (lines 124-126, 139-142) returns or raises; a socket the
\* server no longer answers on is closed by the library.  Leaving the with
\* block releases the lock unless the commit is still to come.
execute_stmt(t, ok) ==
    /\ thread[t].pc = "x_exec"
    /\ thread[t].op # "execute_batch_insert"
    /\ LET p == thread[t].target
           good == Alive(p) /\ ok
           commits == good /\ thread[t].op = "execute_insert" /\ ~autocommit
           rollsBack == ~good /\ thread[t].op = "execute_insert" /\ ~autocommit
       IN  /\ ok => Alive(p)
           /\ sock' = IF Alive(p) \/ sock[p] # "open" THEN sock
                      ELSE [sock EXCEPT ![p] = "closed"]
           /\ connection_lock' = IF commits THEN t ELSE "free"
           /\ thread' = Upd(t,
                  IF commits THEN [thread[t] EXCEPT !.pc = "x_commit", !.net = "commit"]
                  ELSE IF rollsBack
                  THEN [thread[t] EXCEPT !.pc = "x_rollback_call", !.net = "none",
                                         !.target = 0]
                  ELSE IF good
                  THEN Done(thread[t], IF thread[t].op = "execute_query" THEN "rows"
                                       ELSE "True")
                  ELSE Done(thread[t], Failed(thread[t])),
                  sock[p] = "open" /\ ~Alive(p))
    /\ UNCHANGED <<connection, served, last_ping_time, autocommit, batch, expectOpen, envVars,
                   routerVars, monitorVars>>

\* execute_insert, lines 140-142: connection.commit() under the lock.
execute_commit(t) ==
    /\ thread[t].pc = "x_commit"
    /\ LET p == thread[t].target
       IN  /\ sock' = IF Alive(p) \/ sock[p] # "open" THEN sock
                      ELSE [sock EXCEPT ![p] = "closed"]
           /\ thread' = Upd(t,
                  IF Alive(p) THEN Done(thread[t], "True")
                  ELSE [thread[t] EXCEPT !.pc = "x_rollback_call", !.net = "none",
                                         !.target = 0],
                  sock[p] = "open" /\ ~Alive(p))
           /\ batch' = IF Alive(p) THEN Committed(batch, p) ELSE batch
    /\ connection_lock' = "free"
    /\ UNCHANGED <<connection, served, last_ping_time, autocommit, expectOpen, envVars,
                   routerVars, monitorVars>>

\* execute_insert, lines 145-147: the handler runs after the lock is
\* released and reads self.connection once more.
execute_rollback_call(t) ==
    /\ thread[t].pc = "x_rollback_call"
    /\ thread' = Upd(t, IF connection = 0 THEN Done(thread[t], "False")
                        ELSE [thread[t] EXCEPT !.pc = "x_rollback", !.net = "rollback",
                                               !.target = connection], FALSE)
    /\ UNCHANGED <<connection, sock, served, connection_lock, last_ping_time, autocommit, batch,
                   expectOpen, envVars, routerVars, monitorVars>>

\* execute_insert, lines 147-150: connection.rollback() returns or raises
\* (swallowed); the call returns False.
execute_rollback(t) ==
    /\ thread[t].pc = "x_rollback"
    /\ LET p == thread[t].target
       IN  /\ sock' = IF Alive(p) \/ sock[p] # "open" THEN sock
                      ELSE [sock EXCEPT ![p] = "closed"]
           /\ thread' = Upd(t, Done(thread[t], "False"), sock[p] = "open" /\ ~Alive(p))
           /\ batch' = IF Alive(p) THEN Dropped(batch, p) ELSE batch
    /\ UNCHANGED <<connection, served, connection_lock, last_ping_time, autocommit,
                   expectOpen, envVars, routerVars, monitorVars>>

\* get_connection_info, line 393, first operand: self.connection is not None.
info_connection(t) ==
    /\ thread[t].pc = "i_conn"
    /\ thread' = Upd(t, IF connection = 0 THEN Done(thread[t], "False")
                        ELSE [thread[t] EXCEPT !.pc = "i_open"], FALSE)
    /\ UNCHANGED <<connection, sock, served, connection_lock, last_ping_time, autocommit,
                   batch, expectOpen, envVars, routerVars, monitorVars>>

\* get_connection_info, line 393, second operand: self.connection.open, read
\* without the lock; on None the AttributeError leaves the call.
info_open(t) ==
    /\ thread[t].pc = "i_open"
    /\ thread' = Upd(t, IF connection = 0 THEN Done(thread[t], "raise")
                        ELSE Done(thread[t], PyBool(sock[connection] = "open")), FALSE)
    /\ UNCHANGED <<connection, sock, served, connection_lock, last_ping_time, autocommit,
                   batch, expectOpen, envVars, routerVars, monitorVars>>

\* execute_batch_insert is called with a list of n rows.
StartBatch(t, n) ==
    /\ thread[t].pc = "idle"
    /\ thread' = Upd(t, [IdleThread EXCEPT !.op = "execute_batch_insert",
                                           !.pc = Entry("execute_batch_insert")], FALSE)
    /\ batch' = [NoBatch EXCEPT !.params_list = n]
    /\ UNCHANGED <<connection, sock, served, connection_lock, last_ping_time, autocommit,
                   expectOpen, envVars, routerVars, monitorVars>>

\* execute_batch_insert, lines 157-158, reached after _ensure_connection
\* (line 154) has returned True.
batch_empty(t) ==
    /\ thread[t].pc = "b_empty"
    /\ thread' = Upd(t, IF batch.params_list = 0 THEN Done(thread[t], "True")
                        ELSE [thread[t] EXCEPT !.pc = "x_lock"], FALSE)
    /\ UNCHANGED <<connection, sock, served, connection_lock, last_ping_time, autocommit,
                   batch, expectOpen, envVars, routerVars, monitorVars>>

\* execute_batch_insert, lines 163-167: cursor.executemany runs the rows in
\* order; k of them are executed before the server rejects one or the socket
\* turns out dead, k = params_list when none fails.  With autocommit the
\* server commits each row as it is executed.
batch_stmt(t, k) ==
    /\ thread[t].pc = "x_exec"
    /\ thread[t].op = "execute_batch_insert"
    /\ LET p == thread[t].target
           good == k = batch.params_list
       IN  /\ ~Alive(p) => k = 0
           /\ sock' = IF Alive(p) \/ sock[p] # "open" THEN sock
                      ELSE [sock EXCEPT ![p] = "closed"]
           /\ batch' = IF autocommit
                       THEN [batch EXCEPT !.conn = p, !.committed = k]
                       ELSE [batch EXCEPT !.conn = p, !.pending = k]
           /\ connection_lock' = IF good /\ ~autocommit THEN t ELSE "free"
           /\ thread' = Upd(t,
                  IF good /\ ~autocommit
                  THEN [thread[t] EXCEPT !.pc = "x_commit", !.net = "commit"]
                  ELSE IF good THEN Done(thread[t], "True")
                  ELSE IF ~autocommit
                  THEN [thread[t] EXCEPT !.pc = "x_rollback_call", !.net = "none",
                                         !.target = 0]
                  ELSE Done(thread[t], "False"),
                  sock[p] = "open" /\ ~Alive(p))
    /\ UNCHANGED <<connection, served, last_ping_time, autocommit, expectOpen, envVars,
                   routerVars, monitorVars>>

\* A connection object nothing refers to any more is finalized at some
\* point, which closes its socket.
Finalize(p) ==
    /\ sock[p] = "open"
    /\ connection # p
    /\ \A u \in Threads : thread[u].target # p
    /\ sock' = [sock EXCEPT ![p] = "closed"]
    /\ served' = served \ {p}
    /\ batch' = Dropped(batch, p)
    /\ UNCHANGED <<connection, connection_lock, last_ping_time, autocommit, thread,
                   expectOpen, envVars, routerVars, monitorVars>>

HandleTick ==
    /\ Tick
    /\ UNCHANGED <<routerVars, handleVars, monitorVars>>

HandleServerDown ==
    /\ dbUp
    /\ dbUp' = FALSE
    /\ served' = {}
    /\ batch' = [batch EXCEPT !.pending = 0]
    /\ UNCHANGED <<now, ticks, routerVars, connection, sock, connection_lock,
                   last_ping_time, autocommit, thread, expectOpen, monitorVars>>

HandleServerUp ==
    /\ ~dbUp
    /\ dbUp' = TRUE
    /\ UNCHANGED <<now, ticks, routerVars, handleVars, monitorVars>>

\* No DataHandler takes part.
RouterAbsent ==
    /\ DATA_CONFIG = [save_to_csv |-> FALSE, save_to_db |-> FALSE]
    /\ mysql_handler = "None"
    /\ dh = NewHandler
    /\ option_trades = <<>>
    /\ csv = NoFile
    /\ saved = <<>>
    /\ csvFailed = FALSE
    /\ last = [op |-> "init"]

HandleInit ==
    /\ now = StartTime
    /\ ticks = 0
    /\ dbUp \in BOOLEAN
    /\ RouterAbsent
    /\ \E ac \in BOOLEAN : HandleFresh(ac)
    /\ MonitorFresh

HandleNext ==
    \/ \E t \in Threads :
          \/ \E op \in Ops(t) : Start(t, op)
          \/ connect_lock(t)
          \/ connect_net(t)
          \/ connect_except(t)
          \/ disconnect_lock(t)
          \/ disconnect_close(t)
          \/ ensure_time(t)
          \/ ensure_ping_if(t)
          \/ ensure_ping_call(t)
          \/ ensure_ping(t)
          \/ ensure_state(t)
          \/ ensure_open(t)
          \/ execute_lock(t)
          \/ \E ok \in BOOLEAN : execute_stmt(t, ok)
          \/ execute_commit(t)
          \/ execute_rollback_call(t)
          \/ execute_rollback(t)
          \/ info_connection(t)
          \/ info_open(t)
    \/ \E p \in ConnIds : Finalize(p)
    \/ HandleTick
    \/ HandleServerDown
    \/ HandleServerUp

SpecHandle == HandleInit /\ [][HandleNext]_vars

\* The caller thread alone, calling connect, disconnect and
\* _ensure_connection one after the other.
SeqOps == {"connect", "disconnect", "_ensure_connection"}

SeqNext ==
    \/ \E op \in SeqOps : Start("caller", op)
    \/ connect_lock("caller")
    \/ connect_net("caller")
    \/ connect_except("caller")
    \/ disconnect_lock("caller")
    \/ disconnect_close("caller")
    \/ ensure_time("caller")
    \/ ensure_ping_if("caller")
    \/ ensure_ping_call("caller")
    \/ ensure_ping("caller")
    \/ ensure_state("caller")
    \/ ensure_open("caller")
    \/ HandleTick
    \/ HandleServerDown
    \/ HandleServerUp

SpecSeq == HandleInit /\ [][SeqNext]_vars

\* One thread calls execute_batch_insert while another inserts single rows
\* and reconnects.
BatchLists == {0, BatchLen}
BatchOps(t) == IF t = "caller" THEN {} ELSE {"execute_insert", "connect"}

BatchNext ==
    \/ \E n \in BatchLists : StartBatch("caller", n)
    \/ \E t \in Threads :
          \/ \E op \in BatchOps(t) : Start(t, op)
          \/ connect_lock(t)
          \/ connect_net(t)
          \/ connect_except(t)
          \/ ensure_time(t)
          \/ ensure_ping_if(t)
          \/ ensure_ping_call(t)
          \/ ensure_ping(t)
          \/ ensure_state(t)
          \/ ensure_open(t)
          \/ batch_empty(t)
          \/ execute_lock(t)
          \/ \E ok \in BOOLEAN : execute_stmt(t, ok)
          \/ \E k \in 0..BatchLen : batch_stmt(t, k)
          \/ execute_commit(t)
          \/ execute_rollback_call(t)
          \/ execute_rollback(t)
    \/ \E p \in ConnIds : Finalize(p)
    \/ HandleTick
    \/ HandleServerDown
    \/ HandleServerUp

SpecBatch == HandleInit /\ [][BatchNext]_vars

(***************************************************************************)
(* Claims about MySQLHandler.                                              *)
(***************************************************************************)
OpenSockets == {i \in ConnIds : sock[i] = "open"}

\* C7 as claimed (SpecHandle): in every state at most one socket opened by
\* the handle is open, and an open socket is the one the handle refers to,
\* so no connect leaves an open connection unreferenced and no failed
\* connect drops a connection the other thread has just opened.
C7_AtMostOneConnection ==
    /\ Cardinality(OpenSockets) <= 1
    /\ \A i \in OpenSockets : connection = i

\* C8 as claimed (SpecHandle): a thread performs a network call (connect,
\* ping, execute, commit, rollback, close) only while it holds
\* connection_lock, so no two threads perform one at the same time.
C8_NetworkUnderLock ==
    /\ \A t \in Threads : thread[t].net # "none" => connection_lock = t
    /\ \A t, u \in Threads :
          (t # u /\ thread[t].net # "none") => thread[u].net = "none"

\* C9 as claimed (SpecHandle): when execute_query or execute_insert issues
\* its statement, nothing has closed, dropped or replaced the connection
\* since the liveness check of the same call.
C9_StatementOnCheckedConnection ==
    [][\A t \in Threads :
          (thread[t].pc = "x_lock" /\ thread'[t].pc = "x_exec") => thread[t].fresh]_vars

\* C10 (SpecSeq): in a sequence of connect, disconnect and _ensure_connection
\* calls, once a connect has returned True the handle reports connected
\* after every later call, up to the next disconnect or the next reconnect
\* that _ensure_connection started and that failed.
C10_OpenUntilDisconnect ==
    (thread["caller"].pc = "idle" /\ expectOpen) => get_connection_info_connected

\* The handle is open on its second connection: a probe failed and the
\* reconnect it triggered succeeded.
C10_Witness ==
    /\ thread["caller"].pc = "idle"
    /\ thread["caller"].op = "_ensure_connection"
    /\ thread["caller"].rv = "True"
    /\ expectOpen
    /\ connection = 2
    /\ get_connection_info_connected

\* C11 (SpecHandle): a connect whose pymysql.connect raises, called directly
\* or from _ensure_connection, returns False and raises nothing; when it
\* returns the handle refers to no connection and reports not connected,
\* and no step of the failing call has written last_ping_time.
C11_FailedConnectLeavesClosed ==
    [][\A t \in Threads :
          /\ (thread[t].pc = "c_net" /\ thread'[t].pc = "c_exc")
                => last_ping_time' = last_ping_time
          /\ (thread[t].pc = "c_exc" /\ thread'[t].pc # "c_exc")
                => /\ connection' = 0
                   /\ ~get_connection_info_connected'
                   /\ last_ping_time' = last_ping_time
                   /\ thread'[t].rv # "raise"
                   /\ thread[t].op \in {"connect", "_ensure_connection"}
                         => thread'[t].pc = "idle" /\ thread'[t].rv = "False"]_vars

\* A handle that was connected and lost its connection to a failed probe;
\* the connect called next has failed too.
C11_Witness ==
    /\ thread["caller"].pc = "idle"
    /\ thread["caller"].op = "connect"
    /\ thread["caller"].rv = "False"
    /\ connection = 0
    /\ last_ping_time # 0
    /\ ~dbUp

(***************************************************************************)
(* SpecEnsure: connect, disconnect and _ensure_connection called one after *)
(* the other on a handle; last describes the latest _ensure_connection     *)
(* call and keeps the time and the probes of the one before it.            *)
(***************************************************************************)
EnsureInit ==
    /\ now = StartTime
    /\ ticks = 0
    /\ dbUp \in BOOLEAN
    /\ RouterAbsent
    /\ HandleFresh(TRUE)
    /\ MonitorFresh

EnsureLive ==
    /\ LET e == ensure_connection(dh, dbUp, now)
       IN  /\ dh' = e.h
           /\ last' = [op |-> "ensure", at |-> now,
                       due |-> now - dh.last_ping_time > ping_interval,
                       was_open |-> dh.connection = "open",
                       probes |-> e.probes, ret |-> e.ret,
                       prev_at |-> IF last.op = "ensure" THEN last.at ELSE 0,
                       prev_probes |-> IF last.op = "ensure" THEN last.probes ELSE 0]
    /\ UNCHANGED <<DATA_CONFIG, mysql_handler, option_trades, csv, saved, csvFailed, envVars,
                   handleVars, monitorVars>>

EnsureConnect ==
    /\ dh' = connect(dh, dbUp, now).h
    /\ dh' # dh
    /\ UNCHANGED <<DATA_CONFIG, mysql_handler, option_trades, csv, saved, csvFailed, last,
                   envVars, handleVars, monitorVars>>

EnsureDisconnect ==
    /\ dh' = disconnect(dh)
    /\ dh' # dh
    /\ UNCHANGED <<DATA_CONFIG, mysql_handler, option_trades, csv, saved, csvFailed, last,
                   envVars, handleVars, monitorVars>>

EnsureNext ==
    \/ EnsureLive
    \/ EnsureConnect
    \/ EnsureDisconnect
    \/ RouterTick
    \/ RouterServerDown
    \/ RouterServerUp

SpecEnsure == EnsureInit /\ [][EnsureNext]_vars

\* The latest two _ensure_connection calls were made within one ping
\* interval of each other.
WithinInterval ==
    /\ last.op = "ensure"
    /\ last.prev_at # 0
    /\ last.at - last.prev_at <= ping_interval

\* C12 as claimed (SpecEnsure): two _ensure_connection calls within one ping
\* interval send at most one probe between them, and a call made more than
\* ping_interval after last_ping_time sends exactly one probe, whether the
\* handle is open or closed.
C12_OneProbeWheneverDue ==
    /\ WithinInterval => last.probes + last.prev_probes <= 1
    /\ (last.op = "ensure" /\ last.due) => last.probes = 1

\* C12 (SpecEnsure): two _ensure_connection calls within one ping interval
\* send at most one probe between them; a call made more than ping_interval
\* after last_ping_time sends exactly one probe when the handle is open and
\* none when it is closed or was never connected; a call made earlier
\* sends none.
C12_OneProbeWhenDueAndOpen ==
    /\ WithinInterval => last.probes + last.prev_probes <= 1
    /\ last.op = "ensure"
          => last.probes = IF last.due /\ last.was_open THEN 1 ELSE 0

\* Two calls at the same time on an open handle whose last verification is
\* older than the interval: the first has sent the probe, the second none.
C12_Witness ==
    /\ WithinInterval
    /\ last.prev_probes = 1
    /\ last.probes = 0
    /\ last.was_open
    /\ ~last.due

\* C13 as claimed (SpecBatch): without autocommit, once execute_batch_insert
\* has returned, all rows of its list are committed if it returned True and
\* none of them is if it did not, whatever the other thread executes and
\* commits on the handle in the meantime.
C13_BatchAtomic ==
    (/\ ~autocommit
     /\ thread["caller"].pc = "idle"
     /\ thread["caller"].op = "execute_batch_insert")
       => batch.committed = IF thread["caller"].rv = "True" THEN batch.params_list ELSE 0

\* C14 as claimed (SpecBatch): execute_batch_insert called with an empty
\* list makes no network call and returns True, whatever the handle's state.
C14_EmptyBatchNoNetwork ==
    (thread["caller"].op = "execute_batch_insert" /\ batch.params_list = 0)
       => /\ thread["caller"].net = "none"
          /\ thread["caller"].pc = "idle" => thread["caller"].rv = "True"

\* C15 as claimed (SpecHandle): no call of connect, disconnect,
\* execute_query, execute_insert or get_connection_info ends with an
\* exception reaching its caller, whatever the server does and however the
\* call interleaves with the other thread's disconnect or reconnect.
C15_NoExceptionEscapes ==
    \A t \in Threads :
        thread[t].op # "_ensure_connection" => thread[t].rv # "raise"

(***************************************************************************)
(* SpecCalls: connect, disconnect, _ensure_connection and execute_insert   *)
(* called one after the other on a handle; last describes the latest call: *)
(* the handle before and after it, what it returned, the probes it sent,   *)
(* and the call before it.                                                 *)
(***************************************************************************)
Made(op, before, after, ret, probes) ==
    [op |-> op, before |-> before, after |-> after, ret |-> ret, probes |-> probes,
     prev |-> last.op,
     prev_ret |-> IF last.op = "init" THEN "-" ELSE last.ret,
     prev_probes |-> IF last.op = "init" THEN 0 ELSE last.probes]

CallsFrame ==
    UNCHANGED <<DATA_CONFIG, mysql_handler, option_trades, csv, saved, csvFailed, envVars,
                handleVars, monitorVars>>

CallsConnect ==
    /\ LET c == connect(dh, dbUp, now)
       IN  /\ dh' = c.h
           /\ last' = Made("connect", dh, c.h, PyBool(c.ret), 0)
    /\ CallsFrame

CallsDisconnect ==
    /\ dh' = disconnect(dh)
    /\ last' = Made("disconnect", dh, disconnect(dh), "None", 0)
    /\ CallsFrame

CallsLive ==
    /\ LET e == ensure_connection(dh, dbUp, now)
       IN  /\ dh' = e.h
           /\ last' = Made("_ensure_connection", dh, e.h, PyBool(e.ret), e.probes)
    /\ CallsFrame

CallsInsert(stmtOk) ==
    /\ LET x == execute_insert(dh, dbUp, now, stmtOk)
       IN  /\ dh' = x.h
           /\ last' = Made("execute_insert", dh, x.h, PyBool(x.ret), 0)
    /\ CallsFrame

CallsNext ==
    \/ CallsConnect
    \/ CallsDisconnect
    \/ CallsLive
    \/ \E stmtOk \in BOOLEAN : CallsInsert(stmtOk)
    \/ RouterTick
    \/ RouterServerDown
    \/ RouterServerUp

SpecCalls == EnsureInit /\ [][CallsNext]_vars

\* C25 (SpecCalls): connect called on a handle whose connection is open
\* returns True and leaves the handle as it was: the same connection, not
\* closed, and the same last_ping_time; so a connect right after a connect
\* that returned True changes nothing.
C25_ConnectIdempotent ==
    /\ (last.op = "connect" /\ last.before.connection = "open")
          => /\ last.ret = "True"
             /\ last.after = last.before
    /\ (last.op = "connect" /\ last.prev = "connect" /\ last.prev_ret = "True")
          => /\ last.ret = "True"
             /\ last.after = last.before

\* The second of two connect calls, made after the clock has advanced and
\* the server has dropped the socket: it has returned True and has left the
\* earlier last_ping_time.
C25_Witness ==
    /\ last.op = "connect"
    /\ last.prev = "connect"
    /\ last.prev_ret = "True"
    /\ last.ret = "True"
    /\ last.before.connection = "open"
    /\ ~last.before.alive
    /\ last.after.last_ping_time = StartTime
    /\ now > StartTime

\* C26 (SpecCalls): when disconnect has returned the handle refers to no
\* connection and reports not connected, whatever it was before, and the
\* call raises nothing; on a handle that reported not connected the report
\* and last_ping_time stay as they were, and on one that referred to no
\* connection, as after a probe that failed and a reconnect that failed
\* too, nothing changes at all.
C26_DisconnectCloses ==
    last.op = "disconnect"
       => /\ last.after.connection = "None"
          /\ last.ret = "None"
          /\ last.after.last_ping_time = last.before.last_ping_time
          /\ last.before.connection = "None" => last.after = last.before
          /\ (last.prev = "_ensure_connection" /\ last.prev_probes = 1
                 /\ last.prev_ret = "False") => last.after = last.before

\* disconnect called on a handle whose probe had failed, together with the
\* reconnect that followed it.
C26_Witness ==
    /\ last.op = "disconnect"
    /\ last.prev = "_ensure_connection"
    /\ last.prev_probes = 1
    /\ last.prev_ret = "False"
    /\ last.before.last_ping_time # 0
    /\ last.after = last.before

(***************************************************************************)
(* DatabaseHealthChecker, step by step.  A step is one read or write of a  *)
(* field another thread may write, or the completion of one call on the    *)
(* handle; the handle is used as in the sequential reading above, the      *)
(* interleavings inside it being SpecHandle's subject.                     *)
(***************************************************************************)
statsVars == <<is_healthy, check_count, success_count, failure_count, last_check_time,
               last_failure_time, last_failure_reason>>
loopVars == <<stop_event, health_check_thread, lifecycle>>
outerVars == <<envVars, routerVars, handleVars>>

\* The caller starts a call of op.
Enter(op) ==
    IF op = "start_monitoring" THEN "m_start"
    ELSE IF op = "stop_monitoring" THEN "s_signal"
    ELSE IF op = "get_health_status" THEN "g_count"
    ELSE IF op = "force_reconnect" THEN "f_disconnect"
    ELSE IF op = "reset_statistics" THEN "r_check"
    ELSE "ch_read"

Call(op) ==
    /\ proc[Caller].pc = "idle"
    /\ proc' = [proc EXCEPT ![Caller] = [IdleProc EXCEPT !.op = op, !.pc = Enter(op)]]
    /\ status' = IF op = "get_health_status" THEN EmptyStatus ELSE status
    /\ hist' = IF op = "force_reconnect"
               THEN [hist EXCEPT !.trace = <<>>, !.count0 = check_count]
               ELSE hist
    /\ UNCHANGED <<statsVars, loopVars, mh, outerVars>>

\* check_health returns v: to the caller of the call, into force_reconnect
\* (line 169, which returns its own success), or into the loop (line 111),
\* neither of which uses v.
CheckReturn(p, v) ==
    IF p # Caller
    THEN [proc[p] EXCEPT !.pc = "l_healthy", !.rv = v, !.reg = 0]
    ELSE IF proc[p].op = "force_reconnect"
    THEN [proc[p] EXCEPT !.pc = "idle", !.rv = "True", !.reg = 0]
    ELSE [proc[p] EXCEPT !.pc = "idle", !.rv = v, !.reg = 0]

\* check_health, lines 49-53: the handler is there; check_count is read.
check_health_read(p) ==
    /\ proc[p].pc = "ch_read"
    /\ proc' = [proc EXCEPT ![p] = [@ EXCEPT !.pc = "ch_write", !.reg = check_count]]
    /\ UNCHANGED <<statsVars, loopVars, mh, status, hist, outerVars>>

\* check_health, lines 53-54: check_count is written, the time is taken, and
\* health_check is called.
check_health_write(p) ==
    /\ proc[p].pc = "ch_write"
    /\ check_count' = proc[p].reg + 1
    /\ last_check_time' = now
    /\ proc' = [proc EXCEPT ![p] = [@ EXCEPT !.pc = "ch_probe", !.reg = 0]]
    /\ UNCHANGED <<is_healthy, success_count, failure_count, last_failure_time,
                   last_failure_reason, loopVars, mh, status, hist, outerVars>>

\* MySQLHandler.health_check, lines 377-384: SELECT 1 returned a row; every
\* exception is caught there, so lines 73-79 of check_health are not reached.
health_check(h, up, t, stmtOk) ==
    LET r == execute_query(h, up, t, stmtOk, <<[health_check |-> 1]>>)
    IN  [h |-> r.h, ret |-> r.ret /\ Len(r.rows) > 0]

\* The outcome of one more health_check call.
Record(hs, ok, t) ==
    [hs EXCEPT !.calls = hs.calls + 1,
               !.ok = IF ok THEN hs.ok + 1 ELSE hs.ok,
               !.last = PyBool(ok),
               !.fail_at = IF ok THEN hs.fail_at ELSE t,
               !.alt = hs.alt /\ (IF hs.last = "-" THEN ok ELSE PyBool(ok) # hs.last)]

\* One more call made by the force_reconnect call in progress.
Traced(hs, p, what) ==
    IF proc[p].op = "force_reconnect" THEN [hs EXCEPT !.trace = Append(hs.trace, what)]
    ELSE hs

\* check_health, lines 58-60: the health_check call in flight ends.
check_health_probe(p, stmtOk) ==
    /\ proc[p].pc = "ch_probe"
    /\ LET r == health_check(mh, dbUp, now, stmtOk)
       IN  /\ mh' = r.h
           /\ hist' = Traced(Record(hist, r.ret, now), p, "health_check")
           /\ proc' = [proc EXCEPT ![p] = [@ EXCEPT
                          !.pc = IF r.ret THEN "ch_ok_read" ELSE "ch_fail_read"]]
    /\ UNCHANGED <<statsVars, loopVars, status, outerVars>>

\* check_health, line 61: success_count is read.
check_health_ok_read(p) ==
    /\ proc[p].pc = "ch_ok_read"
    /\ proc' = [proc EXCEPT ![p] = [@ EXCEPT !.pc = "ch_ok_write", !.reg = success_count]]
    /\ UNCHANGED <<statsVars, loopVars, mh, status, hist, outerVars>>

\* A plausible slip: the success branch counts the success and leaves
\* is_healthy as it was.
check_health_ok_write_keeps_flag(p) ==
    /\ proc[p].pc = "ch_ok_write"
    /\ success_count' = proc[p].reg + 1
    /\ proc' = [proc EXCEPT ![p] = CheckReturn(p, "True")]
    /\ UNCHANGED <<is_healthy, check_count, failure_count, last_check_time, last_failure_time,
                   last_failure_reason, loopVars, mh, status, hist, outerVars>>

\* check_health, lines 61-64.
check_health_ok_write(p) ==
    /\ proc[p].pc = "ch_ok_write"
    /\ success_count' = proc[p].reg + 1
    /\ is_healthy' = TRUE
    /\ proc' = [proc EXCEPT ![p] = CheckReturn(p, "True")]
    /\ UNCHANGED <<check_count, failure_count, last_check_time, last_failure_time,
                   last_failure_reason, loopVars, mh, status, hist, outerVars>>

\* check_health, line 66: failure_count is read.
check_health_fail_read(p) ==
    /\ proc[p].pc = "ch_fail_read"
    /\ proc' = [proc EXCEPT ![p] = [@ EXCEPT !.pc = "ch_fail_write", !.reg = failure_count]]
    /\ UNCHANGED <<statsVars, loopVars, mh, status, hist, outerVars>>

\* A plausible slip: the failure branch sets the flag and the reason but
\* leaves failure_count alone.
check_health_fail_write_no_count(p) ==
    /\ proc[p].pc = "ch_fail_write"
    /\ is_healthy' = FALSE
    /\ last_failure_time' = now
    /\ last_failure_reason' = "Health check query failed"
    /\ proc' = [proc EXCEPT ![p] = CheckReturn(p, "False")]
    /\ UNCHANGED <<check_count, success_count, failure_count, last_check_time, loopVars, mh,
                   status, hist, outerVars>>

\* check_health, lines 66-71.
check_health_fail_write(p) ==
    /\ proc[p].pc = "ch_fail_write"
    /\ failure_count' = proc[p].reg + 1
    /\ is_healthy' = FALSE
    /\ last_failure_time' = now
    /\ last_failure_reason' = "Health check query failed"
    /\ proc' = [proc EXCEPT ![p] = CheckReturn(p, "False")]
    /\ UNCHANGED <<check_count, success_count, last_check_time, loopVars, mh, status, hist,
                   outerVars>>

\* A plausible slip: the loop is while True and never looks at the event.
monitoring_loop_test_ignores_stop(i, max) ==
    /\ proc[i].pc = "l_test"
    /\ hist.calls < max
    /\ proc' = [proc EXCEPT ![i] = [@ EXCEPT !.pc = "ch_read"]]
    /\ UNCHANGED <<statsVars, loopVars, mh, status, hist, outerVars>>

\* _monitoring_loop, lines 109-111: the stop event is tested; the thread ends
\* when it is set and calls check_health when not (at most max calls).
monitoring_loop_test(i, max) ==
    /\ proc[i].pc = "l_test"
    /\ stop_event \/ hist.calls < max
    /\ proc' = [proc EXCEPT ![i] = [@ EXCEPT !.pc = IF stop_event THEN "dead" ELSE "ch_read"]]
    /\ UNCHANGED <<statsVars, loopVars, mh, status, hist, outerVars>>

\* _monitoring_loop, line 114: self.is_healthy is read after check_health.
monitoring_loop_healthy(i) ==
    /\ proc[i].pc = "l_healthy"
    /\ proc' = [proc EXCEPT ![i] = IF is_healthy
                                    THEN [@ EXCEPT !.pc = "l_wait", !.rv = "-", !.reg = now]
                                    ELSE [@ EXCEPT !.pc = "l_connect", !.rv = "-"]]
    /\ UNCHANGED <<statsVars, loopVars, mh, status, hist, outerVars>>

\* _monitoring_loop, lines 116-119: the connect call ends; its result is
\* logged.
monitoring_loop_connect(i) ==
    /\ proc[i].pc = "l_connect"
    /\ mh' = connect(mh, dbUp, now).h
    /\ proc' = [proc EXCEPT ![i] = [@ EXCEPT !.pc = "l_wait", !.reg = now]]
    /\ UNCHANGED <<statsVars, loopVars, status, hist, outerVars>>

\* _monitoring_loop, line 122: stop_event.wait(check_interval), begun at
\* the time kept in reg, returns when the event is set or the interval is
\* over.
monitoring_loop_wait(i) ==
    /\ proc[i].pc = "l_wait"
    /\ stop_event \/ now - proc[i].reg >= check_interval
    /\ proc' = [proc EXCEPT ![i] = [@ EXCEPT !.pc = "l_test", !.reg = 0]]
    /\ UNCHANGED <<statsVars, loopVars, mh, status, hist, outerVars>>

\* _monitoring_loop, line 122: stop_event.wait(check_interval) returns
\* because the interval is over, the event not being set; the clock stands
\* at the end of the interval at the earliest.
monitoring_loop_sleep(i) ==
    /\ proc[i].pc = "l_wait"
    /\ ~stop_event
    /\ now' = IF now - proc[i].reg >= check_interval THEN now
              ELSE proc[i].reg + check_interval
    /\ proc' = [proc EXCEPT ![i] = [@ EXCEPT !.pc = "l_test", !.reg = 0]]
    /\ UNCHANGED <<ticks, dbUp, statsVars, loopVars, mh, status, hist, routerVars, handleVars>>

\* self.health_check_thread and self.health_check_thread.is_alive()
monitoring_active == health_check_thread # 0 /\ is_alive(health_check_thread)

UnbornTasks == {i \in TaskIds : proc[i].pc = "unborn"}
NewTask == CHOOSE i \in UnbornTasks : \A j \in UnbornTasks : i <= j

\* start_monitoring, lines 83-98.
start_monitoring ==
    /\ proc[Caller].pc = "m_start"
    /\ IF monitoring_active
       THEN /\ proc' = [proc EXCEPT ![Caller] = [@ EXCEPT !.pc = "idle", !.rv = "None"]]
            /\ UNCHANGED <<stop_event, health_check_thread>>
       ELSE /\ UnbornTasks # {}
            /\ stop_event' = FALSE
            /\ health_check_thread' = NewTask
            /\ proc' = [proc EXCEPT ![Caller] = [@ EXCEPT !.pc = "idle", !.rv = "None"],
                                    ![NewTask] = [@ EXCEPT !.pc = "l_test"]]
    /\ lifecycle' = "Running"
    /\ UNCHANGED <<statsVars, mh, status, hist, outerVars>>

\* A plausible slip: the event is set whether or not a thread is alive.
stop_monitoring_signal_always_sets ==
    /\ proc[Caller].pc = "s_signal"
    /\ stop_event' = TRUE
    /\ IF monitoring_active
       THEN /\ proc' = [proc EXCEPT ![Caller] = [@ EXCEPT !.pc = "s_join"]]
            /\ UNCHANGED lifecycle
       ELSE /\ proc' = [proc EXCEPT ![Caller] = [@ EXCEPT !.pc = "idle", !.rv = "None"]]
            /\ lifecycle' = IF lifecycle = "Running" THEN "Stopped" ELSE lifecycle
    /\ UNCHANGED <<statsVars, health_check_thread, mh, status, hist, outerVars>>

\* stop_monitoring, lines 102-103.
stop_monitoring_signal ==
    /\ proc[Caller].pc = "s_signal"
    /\ IF monitoring_active
       THEN /\ stop_event' = TRUE
            /\ proc' = [proc EXCEPT ![Caller] = [@ EXCEPT !.pc = "s_join"]]
            /\ UNCHANGED lifecycle
       ELSE /\ proc' = [proc EXCEPT ![Caller] = [@ EXCEPT !.pc = "idle", !.rv = "None"]]
            /\ lifecycle' = IF lifecycle = "Running" THEN "Stopped" ELSE lifecycle
            /\ UNCHANGED stop_event
    /\ UNCHANGED <<statsVars, health_check_thread, mh, status, hist, outerVars>>

\* stop_monitoring, lines 104-105: join(timeout=5) returns, the thread having
\* ended or the five seconds being over.
stop_monitoring_join ==
    /\ proc[Caller].pc = "s_join"
    /\ proc' = [proc EXCEPT ![Caller] = [@ EXCEPT !.pc = "idle", !.rv = "None"]]
    /\ lifecycle' = "Stopped"
    /\ UNCHANGED <<statsVars, stop_event, health_check_thread, mh, status, hist, outerVars>>

\* get_health_status, lines 131-133.
get_health_status_count ==
    /\ proc[Caller].pc = "g_count"
    /\ status' = [status EXCEPT !.is_healthy = is_healthy, !.check_count = check_count]
    /\ proc' = [proc EXCEPT ![Caller] = [@ EXCEPT !.pc = "g_success"]]
    /\ UNCHANGED <<statsVars, loopVars, mh, hist, outerVars>>

\* get_health_status, line 134.
get_health_status_success ==
    /\ proc[Caller].pc = "g_success"
    /\ status' = [status EXCEPT !.success_count = success_count]
    /\ proc' = [proc EXCEPT ![Caller] = [@ EXCEPT !.pc = "g_failure"]]
    /\ UNCHANGED <<statsVars, loopVars, mh, hist, outerVars>>

\* get_health_status, line 135.
get_health_status_failure ==
    /\ proc[Caller].pc = "g_failure"
    /\ status' = [status EXCEPT !.failure_count = failure_count]
    /\ proc' = [proc EXCEPT ![Caller] = [@ EXCEPT !.pc = "g_rate_if"]]
    /\ UNCHANGED <<statsVars, loopVars, mh, hist, outerVars>>

\* get_health_status, line 136: the condition self.check_count > 0.
get_health_status_rate_if ==
    /\ proc[Caller].pc = "g_rate_if"
    /\ IF check_count > 0
       THEN /\ proc' = [proc EXCEPT ![Caller] = [@ EXCEPT !.pc = "g_rate_num"]]
            /\ UNCHANGED status
       ELSE /\ proc' = [proc EXCEPT ![Caller] = [@ EXCEPT !.pc = "g_rest"]]
            /\ status' = [status EXCEPT !.success_rate = [num |-> 0, den |-> 1]]
    /\ UNCHANGED <<statsVars, loopVars, mh, hist, outerVars>>

\* get_health_status, line 136: self.success_count is read.
get_health_status_rate_num ==
    /\ proc[Caller].pc = "g_rate_num"
    /\ proc' = [proc EXCEPT ![Caller] = [@ EXCEPT !.pc = "g_rate_den", !.reg = success_count]]
    /\ UNCHANGED <<statsVars, loopVars, mh, status, hist, outerVars>>

\* get_health_status, line 136: self.check_count is read and divided by; a
\* zero raises ZeroDivisionError, which nothing catches.
get_health_status_rate_den ==
    /\ proc[Caller].pc = "g_rate_den"
    /\ IF check_count = 0
       THEN /\ proc' = [proc EXCEPT ![Caller] = [@ EXCEPT !.pc = "idle", !.rv = "raise",
                                                         !.reg = 0]]
            /\ UNCHANGED status
       ELSE /\ proc' = [proc EXCEPT ![Caller] = [@ EXCEPT !.pc = "g_rest", !.reg = 0]]
            /\ status' = [status EXCEPT
                             !.success_rate = [num |-> proc[Caller].reg, den |-> check_count]]
    /\ UNCHANGED <<statsVars, loopVars, mh, hist, outerVars>>

\* get_health_status, lines 137-153: the remaining entries; the dict is
\* returned.
get_health_status_rest ==
    /\ proc[Caller].pc = "g_rest"
    /\ status' = [status EXCEPT !.monitoring_active = monitoring_active]
    /\ proc' = [proc EXCEPT ![Caller] = [@ EXCEPT !.pc = "idle", !.rv = "status"]]
    /\ UNCHANGED <<statsVars, loopVars, mh, hist, outerVars>>

\* force_reconnect, lines 157-163: the handler is there; disconnect returns.
force_reconnect_disconnect ==
    /\ proc[Caller].pc = "f_disconnect"
    /\ mh' = disconnect(mh)
    /\ hist' = Traced(hist, Caller, "disconnect")
    /\ proc' = [proc EXCEPT ![Caller] = [@ EXCEPT !.pc = "f_connect"]]
    /\ UNCHANGED <<statsVars, loopVars, status, outerVars>>

\* force_reconnect, lines 164-173: connect returns; check_health is called
\* when it returned True, and its result is what force_reconnect returns.
force_reconnect_connect ==
    /\ proc[Caller].pc = "f_connect"
    /\ LET c == connect(mh, dbUp, now)
       IN  /\ mh' = c.h
           /\ proc' = [proc EXCEPT ![Caller] =
                          IF c.ret THEN [@ EXCEPT !.pc = "ch_read"]
                          ELSE [@ EXCEPT !.pc = "idle", !.rv = "False"]]
    /\ hist' = Traced(hist, Caller, "connect")
    /\ UNCHANGED <<statsVars, loopVars, status, outerVars>>

\* A plausible slip: reset_statistics leaves failure_count as it is.
reset_statistics_failure_kept ==
    /\ proc[Caller].pc = "r_failure"
    /\ proc' = [proc EXCEPT ![Caller] = [@ EXCEPT !.pc = "r_time"]]
    /\ UNCHANGED <<statsVars, loopVars, mh, status, hist, outerVars>>

\* reset_statistics, line 204.
reset_statistics_check ==
    /\ proc[Caller].pc = "r_check"
    /\ check_count' = 0
    /\ proc' = [proc EXCEPT ![Caller] = [@ EXCEPT !.pc = "r_success"]]
    /\ UNCHANGED <<is_healthy, success_count, failure_count, last_check_time,
                   last_failure_time, last_failure_reason, loopVars, mh, status, hist,
                   outerVars>>

\* reset_statistics, line 205.
reset_statistics_success ==
    /\ proc[Caller].pc = "r_success"
    /\ success_count' = 0
    /\ proc' = [proc EXCEPT ![Caller] = [@ EXCEPT !.pc = "r_failure"]]
    /\ UNCHANGED <<is_healthy, check_count, failure_count, last_check_time,
                   last_failure_time, last_failure_reason, loopVars, mh, status, hist,
                   outerVars>>

\* reset_statistics, line 206.
reset_statistics_failure ==
    /\ proc[Caller].pc = "r_failure"
    /\ failure_count' = 0
    /\ proc' = [proc EXCEPT ![Caller] = [@ EXCEPT !.pc = "r_time"]]
    /\ UNCHANGED <<is_healthy, check_count, success_count, last_check_time,
                   last_failure_time, last_failure_reason, loopVars, mh, status, hist,
                   outerVars>>

\* reset_statistics, line 207.
reset_statistics_time ==
    /\ proc[Caller].pc = "r_time"
    /\ last_failure_time' = 0
    /\ proc' = [proc EXCEPT ![Caller] = [@ EXCEPT !.pc = "r_reason"]]
    /\ UNCHANGED <<is_healthy, check_count, success_count, failure_count, last_check_time,
                   last_failure_reason, loopVars, mh, status, hist, outerVars>>

\* reset_statistics, lines 208-209.
reset_statistics_reason ==
    /\ proc[Caller].pc = "r_reason"
    /\ last_failure_reason' = "None"
    /\ proc' = [proc EXCEPT ![Caller] = [@ EXCEPT !.pc = "idle", !.rv = "None"]]
    /\ UNCHANGED <<is_healthy, check_count, success_count, failure_count, last_check_time,
                   last_failure_time, loopVars, mh, status, hist, outerVars>>

MonitorTick ==
    /\ Tick
    /\ UNCHANGED <<routerVars, handleVars, monitorVars>>

\* The server goes away: the socket of the monitor's handle is dropped.
MonitorServerDown ==
    /\ dbUp
    /\ dbUp' = FALSE
    /\ mh' = [mh EXCEPT !.alive = FALSE]
    /\ UNCHANGED <<now, ticks, statsVars, loopVars, proc, status, hist, routerVars,
                   handleVars>>

MonitorServerUp ==
    /\ ~dbUp
    /\ dbUp' = TRUE
    /\ UNCHANGED <<now, ticks, routerVars, handleVars, monitorVars>>

MonitorInit ==
    /\ now = StartTime
    /\ ticks = 0
    /\ dbUp \in BOOLEAN
    /\ RouterAbsent
    /\ HandleFresh(TRUE)
    /\ MonitorFresh

\* The steps of check_health, whoever runs it.
check_health(p, stmtOk) ==
    \/ check_health_read(p)
    \/ check_health_write(p)
    \/ check_health_probe(p, stmtOk)
    \/ check_health_ok_read(p)
    \/ check_health_ok_write(p)
    \/ check_health_fail_read(p)
    \/ check_health_fail_write(p)

\* The steps of a monitoring thread.
monitoring_loop(i, max) ==
    \/ monitoring_loop_test(i, max)
    \/ \E stmtOk \in BOOLEAN : check_health(i, stmtOk)
    \/ monitoring_loop_healthy(i)
    \/ monitoring_loop_connect(i)
    \/ monitoring_loop_wait(i)

\* SpecMonitor: the caller starts and stops the monitoring and asks for the
\* status while the monitoring thread runs.
MonitorOps == {"start_monitoring", "stop_monitoring", "get_health_status"}

MonitorNext ==
    \/ \E op \in MonitorOps : Call(op)
    \/ start_monitoring
    \/ stop_monitoring_signal
    \/ stop_monitoring_join
    \/ get_health_status_count
    \/ get_health_status_success
    \/ get_health_status_failure
    \/ get_health_status_rate_if
    \/ get_health_status_rate_num
    \/ get_health_status_rate_den
    \/ get_health_status_rest
    \/ \E i \in TaskIds : monitoring_loop(i, MaxChecks)
    \/ MonitorTick
    \/ MonitorServerDown
    \/ MonitorServerUp

SpecMonitor == MonitorInit /\ [][MonitorNext]_vars

\* SpecLoop: the caller only starts and stops the monitoring.  A thread
\* that can take a step takes it in the end: the scheduler runs it, and a
\* call on the handle ends at the latest with its connect, read or write
\* timeout.
LoopOps == {"start_monitoring", "stop_monitoring"}

LoopNext ==
    \/ \E op \in LoopOps : Call(op)
    \/ start_monitoring
    \/ stop_monitoring_signal
    \/ stop_monitoring_join
    \/ \E i \in TaskIds : monitoring_loop(i, MaxChecks)
    \/ MonitorTick
    \/ MonitorServerDown
    \/ MonitorServerUp

SpecLoop ==
    /\ MonitorInit
    /\ [][LoopNext]_vars
    /\ \A i \in TaskIds : WF_vars(monitoring_loop(i, MaxChecks))

\* SpecLifecycle: the steps of SpecLoop, with nothing said about which of
\* them are taken in the end.
SpecLifecycle == MonitorInit /\ [][LoopNext]_vars

\* SpecChecks: check_health called by the caller, one call after the other.
ChecksNext ==
    \/ hist.calls < SeqChecks /\ Call("check_health")
    \/ \E stmtOk \in BOOLEAN : check_health(Caller, stmtOk)
    \/ MonitorTick
    \/ MonitorServerDown
    \/ MonitorServerUp

SpecChecks == MonitorInit /\ [][ChecksNext]_vars

\* The steps of force_reconnect up to its check_health call.
force_reconnect ==
    \/ force_reconnect_disconnect
    \/ force_reconnect_connect

\* The steps of reset_statistics.
reset_statistics ==
    \/ reset_statistics_check
    \/ reset_statistics_success
    \/ reset_statistics_failure
    \/ reset_statistics_time
    \/ reset_statistics_reason

\* SpecStats: the caller starts the monitoring and then calls check_health,
\* force_reconnect and reset_statistics while the monitoring thread runs;
\* StatsCalls bounds the health_check calls after which the caller starts
\* another check.
StatsOps == {"start_monitoring", "reset_statistics"}
StatsCheckOps == {"check_health", "force_reconnect"}

StatsNext ==
    \/ \E op \in StatsOps : Call(op)
    \/ \E op \in StatsCheckOps : hist.calls < StatsCalls /\ Call(op)
    \/ start_monitoring
    \/ \E stmtOk \in BOOLEAN : check_health(Caller, stmtOk)
    \/ force_reconnect
    \/ reset_statistics
    \/ \E i \in TaskIds : monitoring_loop(i, MaxChecks)
    \/ MonitorTick
    \/ MonitorServerDown
    \/ MonitorServerUp

SpecStats == MonitorInit /\ [][StatsNext]_vars

\* SpecReconnect: the caller alone, calling force_reconnect and
\* check_health one after the other.
ReconnectNext ==
    \/ \E op \in StatsCheckOps : hist.calls < StatsCalls /\ Call(op)
    \/ \E stmtOk \in BOOLEAN : check_health(Caller, stmtOk)
    \/ force_reconnect
    \/ MonitorTick
    \/ MonitorServerDown
    \/ MonitorServerUp

SpecReconnect == MonitorInit /\ [][ReconnectNext]_vars

\* SpecReset: the caller calls check_health and reset_statistics before and
\* after it has started the monitoring; the server stays as it is.
ResetNext ==
    \/ \E op \in StatsOps : Call(op)
    \/ hist.calls < StatsCalls /\ Call("check_health")
    \/ start_monitoring
    \/ \E stmtOk \in BOOLEAN : check_health(Caller, stmtOk)
    \/ reset_statistics
    \/ \E i \in TaskIds : monitoring_loop(i, MaxChecks)
    \/ MonitorTick

SpecReset == MonitorInit /\ [][ResetNext]_vars

\* SpecHeal: the monitoring is started and not stopped; the server goes
\* away and comes back while at least two of the HealChecks health checks
\* remain, and serves SELECT 1 whenever it is reachable.  The clock advances
\* with the waits of the thread.  The thread takes the steps it can take: the
\* scheduler runs it, and a call on the handle ends with its timeout at the
\* latest.
HealLoop(i) ==
    \/ monitoring_loop_test(i, HealChecks)
    \/ check_health(i, TRUE)
    \/ monitoring_loop_healthy(i)
    \/ monitoring_loop_connect(i)
    \/ monitoring_loop_sleep(i)

HealServerDown == hist.calls + 2 <= HealChecks /\ MonitorServerDown
HealServerUp == hist.calls + 2 <= HealChecks /\ MonitorServerUp

HealNext ==
    \/ Call("start_monitoring")
    \/ start_monitoring
    \/ \E i \in TaskIds : HealLoop(i)
    \/ MonitorTick
    \/ HealServerDown
    \/ HealServerUp

SpecHeal ==
    /\ MonitorInit
    /\ [][HealNext]_vars
    /\ \A i \in TaskIds : WF_vars(HealLoop(i))

(***************************************************************************)
(* Claims about DatabaseHealthChecker.                                     *)
(***************************************************************************)
StartReturns == proc[Caller].pc = "m_start" /\ proc'[Caller].pc = "idle"

\* C16 as claimed (SpecMonitor): at most one monitoring thread is alive at
\* any time; a start_monitoring call on a Running monitor creates no thread
\* and changes no field, and one on an Unstarted or Stopped monitor creates
\* exactly one thread.
C16_OneTaskPerStart ==
    [][/\ Cardinality(AliveTasks') <= 1
       /\ (StartReturns /\ lifecycle = "Running")
             => /\ AliveTasks' = AliveTasks
                /\ UNCHANGED <<statsVars, stop_event, health_check_thread, mh>>
       /\ (StartReturns /\ lifecycle # "Running")
             => /\ AliveTasks \subseteq AliveTasks'
                /\ Cardinality(AliveTasks' \ AliveTasks) = 1]_vars

\* C17 as claimed (SpecMonitor): once stop_monitoring has returned, the
\* monitoring thread has ended, so that monitoring_active is false and no
\* health check or reconnect follows, however long the probe in flight at
\* the time of the call lasts.
C17_StoppedWhenStopReturns ==
    (proc[Caller].pc = "idle" /\ proc[Caller].op = "stop_monitoring")
       => AliveTasks = {}

\* C20 as claimed (SpecMonitor): in every dict get_health_status returns,
\* success_rate is success_count / check_count * 100 of the dict's own
\* entries when its check_count is positive and 0 when it is 0, so it lies
\* between 0 and 100, also when the monitoring thread writes the counters
\* while the dict is built.
C20_RateOfSnapshot ==
    (proc[Caller].pc = "idle" /\ proc[Caller].op = "get_health_status")
       => /\ proc[Caller].rv = "status"
          /\ IF status.check_count > 0
             THEN status.success_rate.num * status.check_count
                     = status.success_count * status.success_rate.den
             ELSE status.success_rate.num = 0
          /\ status.success_rate.num <= status.success_rate.den

\* C18 (SpecLoop): with the stop event set, a health_check call in flight in
\* the monitoring thread ends and its outcome is written to the status; the
\* thread starts no further check_health; its wait for the next check can
\* return at once; and the thread ends.
C18_CooperativeStop ==
    /\ \A i \in TaskIds :
          (stop_event /\ proc[i].pc = "ch_probe") ~> (proc[i].pc = "l_healthy")
    /\ [][\A i \in TaskIds :
             stop_event => ~(proc[i].pc = "l_test" /\ proc'[i].pc = "ch_read")]_vars
    /\ [](\A i \in TaskIds :
             (stop_event /\ proc[i].pc = "l_wait") => ENABLED monitoring_loop_wait(i))
    /\ \A i \in TaskIds : (stop_event /\ is_alive(i)) ~> ~is_alive(i)

\* The stop event is set, the one health check made has been counted as a
\* success, and the thread has ended without a second one.
C18_Witness ==
    /\ stop_event
    /\ proc[1].pc = "dead"
    /\ proc[Caller].op = "stop_monitoring"
    /\ hist.calls = 1
    /\ check_count = 1
    /\ success_count = 1
    /\ is_healthy

\* C19 (SpecChecks): after n check_health calls made one after the other, k
\* of whose health_check calls returned True, check_count = n,
\* success_count = k and failure_count = n - k; is_healthy and the value
\* returned are the outcome of the latest call; last_failure_reason and
\* last_failure_time are unset while no call has failed and otherwise those
\* of the latest failed call.
C19_CountsFollowOutcomes ==
    proc[Caller].pc = "idle"
       => /\ check_count = hist.calls
          /\ success_count = hist.ok
          /\ failure_count = hist.calls - hist.ok
          /\ hist.calls > 0 => /\ is_healthy = (hist.last = "True")
                               /\ proc[Caller].rv = hist.last
          /\ IF hist.ok = hist.calls
             THEN last_failure_reason = "None" /\ last_failure_time = 0
             ELSE /\ last_failure_reason = "Health check query failed"
                  /\ last_failure_time >= hist.fail_at
                  /\ last_failure_time <= now

\* Ten calls whose outcomes alternated, the first a success and the tenth a
\* failure.
C19_Witness ==
    /\ proc[Caller].pc = "idle"
    /\ hist.calls = 10
    /\ hist.alt
    /\ success_count = 5
    /\ failure_count = 5
    /\ ~is_healthy
    /\ last_failure_reason = "Health check query failed"
    /\ last_failure_time = now

\* The caller is inside reset_statistics.
Resetting == proc[Caller].pc \in {"r_check", "r_success", "r_failure", "r_time", "r_reason"}

\* C21 as claimed (SpecStats): no step other than those of reset_statistics
\* lowers check_count, success_count or failure_count, however the
\* check_health calls of the monitoring thread interleave with the
\* check_health and force_reconnect calls of the caller.
C21_CountersNeverDecrease ==
    [][~Resetting => /\ check_count' >= check_count
                     /\ success_count' >= success_count
                     /\ failure_count' >= failure_count]_vars

\* C22 as claimed (SpecReconnect): a force_reconnect call has made, when it
\* returns, exactly one disconnect, then one connect, then one health check,
\* and check_count is one more than when it began, whether its connect
\* returned True or False.
C22_ReconnectThenCheck ==
    (proc[Caller].pc = "idle" /\ proc[Caller].op = "force_reconnect")
       => /\ hist.trace = <<"disconnect", "connect", "health_check">>
          /\ check_count = hist.count0 + 1

\* C23 as claimed (SpecStats): in the monitoring thread a check_health
\* that returned False is followed by one connect call and then the wait,
\* and one that returned True by the wait alone; a connect that fails
\* leaves the statistics, the closed handle and last_ping_time as they
\* were; and the thread ends only on the stop event.
C23_ReconnectAfterFailedCheck ==
    [][\A i \in TaskIds :
          /\ (proc[i].pc = "l_healthy" /\ proc'[i].pc # "l_healthy")
                => proc'[i].pc = IF proc[i].rv = "False" THEN "l_connect" ELSE "l_wait"
          /\ (proc[i].pc = "l_connect" /\ proc'[i].pc # "l_connect")
                => /\ proc'[i].pc = "l_wait"
                   /\ UNCHANGED statsVars
                   /\ mh'.connection # "open"
                         => mh'.last_ping_time = mh.last_ping_time
          /\ (is_alive(i) /\ ~is_alive(i)') => stop_event]_vars

\* The caller takes the step of reset_statistics that stands at pc.
ResetStep(pc) == proc[Caller].pc = pc /\ proc'[Caller] # proc[Caller]

\* C24 (SpecReset): each step of reset_statistics writes the one field it is
\* to clear, with 0 or None, and nothing else: is_healthy, last_check_time,
\* the handle, the stop event, the thread and the place the monitoring
\* thread has reached stay as they are, and the call returns without
\* raising; when it returns with no monitoring thread alive, the three
\* counters are 0 and the failure time and reason are unset.
C24_ResetClearsStatisticsOnly ==
    /\ [][/\ Resetting /\ proc'[Caller] # proc[Caller]
                => /\ UNCHANGED <<is_healthy, last_check_time, mh, loopVars, outerVars>>
                   /\ \A i \in TaskIds : proc'[i] = proc[i]
                   /\ proc'[Caller].rv # "raise"
          /\ ResetStep("r_check")
                => /\ check_count' = 0
                   /\ UNCHANGED <<success_count, failure_count, last_failure_time,
                                  last_failure_reason>>
          /\ ResetStep("r_success")
                => /\ success_count' = 0
                   /\ UNCHANGED <<check_count, failure_count, last_failure_time,
                                  last_failure_reason>>
          /\ ResetStep("r_failure")
                => /\ failure_count' = 0
                   /\ UNCHANGED <<check_count, success_count, last_failure_time,
                                  last_failure_reason>>
          /\ ResetStep("r_time")
                => /\ last_failure_time' = 0
                   /\ UNCHANGED <<check_count, success_count, failure_count,
                                  last_failure_reason>>
          /\ ResetStep("r_reason")
                => /\ last_failure_reason' = "None"
                   /\ proc'[Caller].pc = "idle"
                   /\ UNCHANGED <<check_count, success_count, failure_count,
                                  last_failure_time>>]_vars
    /\ []((/\ proc[Caller].pc = "idle"
           /\ proc[Caller].op = "reset_statistics"
           /\ AliveTasks = {})
             => /\ check_count = 0
                /\ success_count = 0
                /\ failure_count = 0
                /\ last_failure_time = 0
                /\ last_failure_reason = "None")

\* reset_statistics has returned on a monitor whose thread is running and
\* waits for its next check: the statistics are cleared, and is_healthy and
\* last_check_time are those of the check made before.
C24_Witness ==
    /\ proc[Caller].pc = "idle"
    /\ proc[Caller].op = "reset_statistics"
    /\ \E i \in TaskIds : proc[i].pc = "l_wait"
    /\ hist.calls > 0
    /\ check_count = 0
    /\ success_count = 0
    /\ failure_count = 0
    /\ last_failure_reason = "None"
    /\ is_healthy
    /\ last_check_time # 0
    /\ mh.connection = "open"
    /\ lifecycle = "Running"

\* The caller takes a step of a stop_monitoring call.
StopStep ==
    /\ proc[Caller].pc \in {"s_signal", "s_join"}
    /\ proc'[Caller] # proc[Caller]

\* C27 (SpecLifecycle): no step of a stop_monitoring call made on an
\* Unstarted or Stopped monitor changes the stop event, the statistics, the
\* thread the monitor refers to, the handle, or the place any monitoring
\* thread has reached; the call raises nothing and the monitor stays
\* Unstarted or Stopped.
C27_StopOnStoppedIsNoOp ==
    [][(StopStep /\ lifecycle # "Running")
          => /\ UNCHANGED <<statsVars, stop_event, health_check_thread, mh, outerVars>>
             /\ \A i \in TaskIds : proc'[i] = proc[i]
             /\ proc'[Caller].rv # "raise"
             /\ lifecycle' = lifecycle]_vars

\* stop_monitoring has returned on a monitor never started: the event is
\* clear and there is no thread.
C27_Witness ==
    /\ proc[Caller].pc = "idle"
    /\ proc[Caller].op = "stop_monitoring"
    /\ proc[Caller].rv = "None"
    /\ lifecycle = "Unstarted"
    /\ ~stop_event
    /\ health_check_thread = 0

\* C28 (SpecHeal): if from some point on the monitor is Running and the
\* server is reachable, then from some point on is_healthy is true.
C28_SelfHealing ==
    <>[](dbUp /\ lifecycle = "Running") => <>[]is_healthy

\* After a first check that passed, a check of the thread has failed, the
\* reconnect of the same iteration has succeeded, and the next check has
\* passed.
C28_Witness ==
    /\ lifecycle = "Running"
    /\ dbUp
    /\ is_healthy
    /\ hist.calls = 3
    /\ hist.last = "True"
    /\ success_count = 2
    /\ failure_count = 1
    /\ last_failure_time = mh.last_ping_time
    /\ mh.last_ping_time > StartTime
    /\ mh.connection = "open"
    /\ mh.alive

\* C29 as claimed (SpecLifecycle): from the return of start_monitoring up
\* to the next stop_monitoring call the monitor has a monitoring thread
\* that is alive and has not been told to stop, so that health checks go
\* on; also when the start follows a stop_monitoring whose join timed out
\* with the earlier thread still inside a probe.
C29_RunningUntilStop ==
    (lifecycle = "Running" /\ proc[Caller].pc \notin {"s_signal", "s_join"})
       => /\ monitoring_active
          /\ ~stop_event

\* Some thread is inside check_health.
Checking ==
    \E p \in Procs :
        proc[p].pc \in {"ch_read", "ch_write", "ch_probe", "ch_ok_read", "ch_ok_write",
                        "ch_fail_read", "ch_fail_write"}

\* C30 as claimed (SpecStats): whenever no check_health call and no
\* reset_statistics call is in progress, check_count is the sum of
\* success_count and failure_count, however the check_health calls of the
\* monitoring thread and of the caller interleave with each other and with
\* reset_statistics.
C30_CountIsSumOfOutcomes ==
    (~Checking /\ ~Resetting) => check_count = success_count + failure_count

====
